---- MODULE Spec2Model ----
(***************************************************************************)
(* Model of the gor front end (src/src/lexer, src/src/parser).             *)
(*                                                                         *)
(* A text is a sequence of characters; every character is a one-character  *)
(* string.  Rust indexes a String by BYTE offset (len(), s[a..b]) but      *)
(* chars().nth(i) by CHARACTER index, so a character keeps its UTF-8       *)
(* width here and both views of the same text are modelled.                *)
(***************************************************************************)
EXTENDS Integers, Sequences, FiniteSets, TLC

\* lexer:    the Lexer object
\* prev:     the Lexer object as it was when the latest call was entered
\* tokens:   the tokens the caller has been handed so far, oldest first
\* calls:    the number of calls made on the Lexer object
\* panicked: a call failed (index out of range or off a character boundary)
\* ret:      the latest call: its name, its argument n, and what it returned
\*           (toks for peek_tokens, val for had_newline_before_current_token)
\* asked:    how often the newline flag has been asked for since the latest
\*           next_token call
VARIABLES lexer, prev, tokens, calls, panicked, ret, asked, parser

vars == <<lexer, prev, tokens, calls, panicked, ret, asked, parser>>

\* ------------------------------------------------------------------ bounds
MaxLen == 4
ExtraCalls == 3
\* peek_tokens is called with a lookahead of at most MaxLookahead and only
\* among the first MaxPeekCalls calls; the newline flag is asked for only
\* among the first MaxQueryCalls calls
MaxLookahead == 2
MaxPeekCalls == 2
MaxQueryCalls == 3
MaxCalls == MaxLen + ExtraCalls

\* -------------------------------------------------------------- characters
NoChar == "<none>"
Wide == "U+00E9"

AsciiDigits == {"0", "1", "2", "3", "4", "5", "6", "7", "8", "9"}

AsciiLetters ==
  { "a", "b", "c", "d", "e", "f", "g", "h", "i", "j", "k", "l", "m",
    "n", "o", "p", "q", "r", "s", "t", "u", "v", "w", "x", "y", "z",
    "A", "B", "C", "D", "E", "F", "G", "H", "I", "J", "K", "L", "M",
    "N", "O", "P", "Q", "R", "S", "T", "U", "V", "W", "X", "Y", "Z" }

is_ascii_digit(c) == c \in AsciiDigits
is_ascii_alphabetic(c) == c \in AsciiLetters
is_ascii_alphanumeric(c) == c \in AsciiLetters \cup AsciiDigits

is_symbol(c) ==
  c \in { "+", "-", "*", "/", "%", "&", "|", "^", "<", ">", "=", "!",
          ".", ":", ",", ";", "(", ")", "[", "]", "{", "}" }

is_whitespace(c) == c \in {"\n", "\t", "\r", " "}

\* char::len_utf8: the one non-ASCII character of the model takes two bytes
Width(c) == IF c = Wide THEN 2 ELSE 1

\* ------------------------------------------------------------------- texts
All(s, P(_)) == \A i \in 1..Len(s) : P(s[i])
Count(s, c) == Cardinality({i \in 1..Len(s) : s[i] = c})
StartsWith(t, p) == Len(p) <= Len(t) /\ SubSeq(t, 1, Len(p)) = p

RECURSIVE ByteLen(_)
ByteLen(s) == IF s = <<>> THEN 0 ELSE Width(Head(s)) + ByteLen(Tail(s))

\* byte offset at which the (k+1)-th character starts
Offset(s, k) == ByteLen(SubSeq(s, 1, k))

IsCharBoundary(s, b) == \E k \in 0..Len(s) : Offset(s, k) = b

CharsBefore(s, b) == CHOOSE k \in 0..Len(s) : Offset(s, k) = b

\* s.chars().nth(i)
CharsNth(s, i) == IF i < Len(s) THEN s[i + 1] ELSE NoChar

\* &s[a..b]: fails when out of range or off a character boundary
Slice(s, a, b) ==
  IF a <= b /\ b <= ByteLen(s) /\ IsCharBoundary(s, a) /\ IsCharBoundary(s, b)
  THEN [ok |-> TRUE, val |-> SubSeq(s, CharsBefore(s, a) + 1, CharsBefore(s, b))]
  ELSE [ok |-> FALSE, val |-> <<>>]

\* ------------------------------------------------------------- classifier
FixedTokens ==
  { [text |-> <<"b", "r", "e", "a", "k">>, kind |-> "Keyword(Break)"],
    [text |-> <<"c", "a", "s", "e">>, kind |-> "Keyword(Case)"],
    [text |-> <<"c", "h", "a", "n">>, kind |-> "Keyword(Chan)"],
    [text |-> <<"c", "o", "n", "s", "t">>, kind |-> "Keyword(Const)"],
    [text |-> <<"c", "o", "n", "t", "i", "n", "u", "e">>, kind |-> "Keyword(Continue)"],
    [text |-> <<"d", "e", "f", "a", "u", "l", "t">>, kind |-> "Keyword(Default)"],
    [text |-> <<"d", "e", "f", "e", "r">>, kind |-> "Keyword(Defer)"],
    [text |-> <<"e", "l", "s", "e">>, kind |-> "Keyword(Else)"],
    [text |-> <<"f", "a", "l", "l", "t", "h", "r", "o", "u", "g", "h">>, kind |-> "Keyword(Fallthrough)"],
    [text |-> <<"f", "o", "r">>, kind |-> "Keyword(For)"],
    [text |-> <<"f", "u", "n", "c">>, kind |-> "Keyword(Func)"],
    [text |-> <<"g", "o">>, kind |-> "Keyword(Go)"],
    [text |-> <<"g", "o", "t", "o">>, kind |-> "Keyword(Goto)"],
    [text |-> <<"i", "f">>, kind |-> "Keyword(If)"],
    [text |-> <<"i", "m", "p", "o", "r", "t">>, kind |-> "Keyword(Import)"],
    [text |-> <<"i", "n", "t", "e", "r", "f", "a", "c", "e">>, kind |-> "Keyword(Interface)"],
    [text |-> <<"m", "a", "p">>, kind |-> "Keyword(Map)"],
    [text |-> <<"p", "a", "c", "k", "a", "g", "e">>, kind |-> "Keyword(Package)"],
    [text |-> <<"r", "a", "n", "g", "e">>, kind |-> "Keyword(Range)"],
    [text |-> <<"r", "e", "t", "u", "r", "n">>, kind |-> "Keyword(Return)"],
    [text |-> <<"s", "e", "l", "e", "c", "t">>, kind |-> "Keyword(Select)"],
    [text |-> <<"s", "t", "r", "u", "c", "t">>, kind |-> "Keyword(Struct)"],
    [text |-> <<"s", "w", "i", "t", "c", "h">>, kind |-> "Keyword(Switch)"],
    [text |-> <<"t", "y", "p", "e">>, kind |-> "Keyword(Type)"],
    [text |-> <<"v", "a", "r">>, kind |-> "Keyword(Var)"],
    [text |-> <<".", ".", ".">>, kind |-> "DotDotDot"],
    [text |-> <<"<", "<", "=">>, kind |-> "LessLessEqual"],
    [text |-> <<">", ">", "=">>, kind |-> "GreaterGreaterEqual"],
    [text |-> <<"&", "^", "=">>, kind |-> "AmpersandCaretEqual"],
    [text |-> <<"=", "=">>, kind |-> "Operator(EqualEqual)"],
    [text |-> <<"!", "=">>, kind |-> "Operator(BangEqual)"],
    [text |-> <<"&", "&">>, kind |-> "Operator(AndAnd)"],
    [text |-> <<"|", "|">>, kind |-> "Operator(PipePipe)"],
    [text |-> <<"+", "=">>, kind |-> "PlusEqual"],
    [text |-> <<"-", "=">>, kind |-> "MinusEqual"],
    [text |-> <<"*", "=">>, kind |-> "StarEqual"],
    [text |-> <<"/", "=">>, kind |-> "SlashEqual"],
    [text |-> <<"%", "=">>, kind |-> "PercentEqual"],
    [text |-> <<"&", "=">>, kind |-> "AmpersandEqual"],
    [text |-> <<"|", "=">>, kind |-> "PipeEqual"],
    [text |-> <<"^", "=">>, kind |-> "CaretEqual"],
    [text |-> <<"<", "-">>, kind |-> "LessMinus"],
    [text |-> <<"+", "+">>, kind |-> "PlusPlus"],
    [text |-> <<"-", "-">>, kind |-> "MinusMinus"],
    [text |-> <<":", "=">>, kind |-> "ColonEqual"],
    [text |-> <<"<">>, kind |-> "Operator(Less)"],
    [text |-> <<"<", "=">>, kind |-> "Operator(LessEqual)"],
    [text |-> <<">">>, kind |-> "Operator(Greater)"],
    [text |-> <<">", "=">>, kind |-> "Operator(GreaterEqual)"],
    [text |-> <<"<", "<">>, kind |-> "Operator(LessLess)"],
    [text |-> <<">", ">">>, kind |-> "Operator(GreaterGreater)"],
    [text |-> <<"&", "^">>, kind |-> "Operator(AmpersandCaret)"],
    [text |-> <<"+">>, kind |-> "Operator(Plus)"],
    [text |-> <<"-">>, kind |-> "Operator(Minus)"],
    [text |-> <<"*">>, kind |-> "Operator(Star)"],
    [text |-> <<"/">>, kind |-> "Operator(Slash)"],
    [text |-> <<"%">>, kind |-> "Operator(Percent)"],
    [text |-> <<"&">>, kind |-> "Operator(Ampersand)"],
    [text |-> <<"|">>, kind |-> "Operator(Pipe)"],
    [text |-> <<"^">>, kind |-> "Operator(Caret)"],
    [text |-> <<"!">>, kind |-> "Bang"],
    [text |-> <<"=">>, kind |-> "Equal"],
    [text |-> <<".">>, kind |-> "Dot"],
    [text |-> <<":">>, kind |-> "Colon"],
    [text |-> <<",">>, kind |-> "Comma"],
    [text |-> <<";">>, kind |-> "Semicolon"],
    [text |-> <<"(">>, kind |-> "LeftParen"],
    [text |-> <<")">>, kind |-> "RightParen"],
    [text |-> <<"[">>, kind |-> "LeftBracket"],
    [text |-> <<"]">>, kind |-> "RightBracket"],
    [text |-> <<"{">>, kind |-> "LeftBrace"],
    [text |-> <<"}">>, kind |-> "RightBrace"],
    [text |-> <<"U+0060">>, kind |-> "Backtick"],
    [text |-> <<"$">>, kind |-> "DollarSign"] }

TOKENS ==
  { <<"b", "r", "e", "a", "k">>,
    <<"c", "a", "s", "e">>,
    <<"c", "h", "a", "n">>,
    <<"c", "o", "n", "s", "t">>,
    <<"c", "o", "n", "t", "i", "n", "u", "e">>,
    <<"d", "e", "f", "a", "u", "l", "t">>,
    <<"d", "e", "f", "e", "r">>,
    <<"e", "l", "s", "e">>,
    <<"f", "a", "l", "l", "t", "h", "r", "o", "u", "g", "h">>,
    <<"f", "o", "r">>,
    <<"f", "u", "n", "c">>,
    <<"g", "o">>,
    <<"g", "o", "t", "o">>,
    <<"i", "f">>,
    <<"i", "m", "p", "o", "r", "t">>,
    <<"i", "n", "t", "e", "r", "f", "a", "c", "e">>,
    <<"m", "a", "p">>,
    <<"p", "a", "c", "k", "a", "g", "e">>,
    <<"r", "a", "n", "g", "e">>,
    <<"r", "e", "t", "u", "r", "n">>,
    <<"s", "e", "l", "e", "c", "t">>,
    <<"s", "t", "r", "u", "c", "t">>,
    <<"s", "w", "i", "t", "c", "h">>,
    <<"t", "y", "p", "e">>,
    <<"v", "a", "r">>,
    <<"+">>,
    <<"-">>,
    <<"*">>,
    <<"/">>,
    <<"%">>,
    <<"&">>,
    <<"|">>,
    <<"^">>,
    <<"<", "<">>,
    <<">", ">">>,
    <<"&", "^">>,
    <<"+", "=">>,
    <<"-", "=">>,
    <<"*", "=">>,
    <<"/", "=">>,
    <<"%", "=">>,
    <<"&", "=">>,
    <<"|", "=">>,
    <<"^", "=">>,
    <<"<", "<", "=">>,
    <<">", ">", "=">>,
    <<"&", "^", "=">>,
    <<"&", "&">>,
    <<"|", "|">>,
    <<"<", "-">>,
    <<"+", "+">>,
    <<"-", "-">>,
    <<"=", "=">>,
    <<"!", "=">>,
    <<"<">>,
    <<"<", "=">>,
    <<">">>,
    <<">", "=">>,
    <<"=">>,
    <<":", "=">>,
    <<"!">>,
    <<".", ".", ".">>,
    <<".">>,
    <<":">>,
    <<",">>,
    <<";">>,
    <<"(">>,
    <<")">>,
    <<"[">>,
    <<"]">>,
    <<"{">>,
    <<"}">> }

FixedKind(value) ==
  IF \E e \in FixedTokens : e.text = value
  THEN (CHOOSE e \in FixedTokens : e.text = value).kind
  ELSE "None"

RECURSIVE is_valid_string_content(_)
is_valid_string_content(content) ==
  IF content = <<>> THEN TRUE
  ELSE IF Head(content) = "\\"
       THEN IF Len(content) < 2 THEN FALSE
            ELSE is_valid_string_content(SubSeq(content, 3, Len(content)))
       ELSE is_valid_string_content(Tail(content))

is_valid_rune_content(value) ==
  IF value = <<>> THEN FALSE
  ELSE IF Head(value) = "\\" THEN Len(value) = 2 ELSE Len(value) = 1

is_integer_literal(value) == All(value, is_ascii_digit)

IsDigitOrDot(c) == is_ascii_digit(c) \/ c = "."

\* a faulty float test: a dot at the end is let through
is_float_literal_TrailingDot(value) ==
  /\ Count(value, ".") >= 1
  /\ All(value, IsDigitOrDot)
  /\ Count(value, ".") = 1
  /\ Head(value) # "."

is_float_literal(value) ==
  /\ Count(value, ".") >= 1
  /\ All(value, IsDigitOrDot)
  /\ Count(value, ".") = 1
  /\ Head(value) # "."
  /\ value[Len(value)] # "."

IsIdentChar(c) == is_ascii_alphanumeric(c) \/ c = "_"

is_valid_identifier(value) ==
  /\ value # <<>>
  /\ (is_ascii_alphabetic(Head(value)) \/ Head(value) = "_")
  /\ All(value, IsIdentChar)

is_valid_string(value) ==
  /\ ByteLen(value) >= 2
  /\ Head(value) = "\""
  /\ value[Len(value)] = "\""
  /\ is_valid_string_content(SubSeq(value, 2, Len(value) - 1))

is_valid_rune(value) ==
  /\ ByteLen(value) >= 3
  /\ Head(value) = "'"
  /\ value[Len(value)] = "'"
  /\ is_valid_rune_content(SubSeq(value, 2, Len(value) - 1))

\* a faulty from_str: the identifier test comes before the table of fixed
\* tokens, so a reserved word is an Identifier
from_str_IdentifierFirst(value) ==
  IF value = <<>> \/ All(value, is_whitespace) THEN "None"
  ELSE IF is_valid_identifier(value) THEN "Identifier"
  ELSE IF FixedKind(value) # "None" THEN FixedKind(value)
  ELSE IF is_integer_literal(value) THEN "IntegerLiteral"
  ELSE IF is_float_literal(value) THEN "FloatLiteral"
  ELSE IF is_valid_string(value) THEN "StringLiteral"
  ELSE IF is_valid_rune(value) THEN "RuneLiteral"
  ELSE "None"

\* TokenKind::from_str; "None" is Option::None
from_str(value) ==
  IF value = <<>> \/ All(value, is_whitespace) THEN "None"
  ELSE IF FixedKind(value) # "None" THEN FixedKind(value)
  ELSE IF is_integer_literal(value) THEN "IntegerLiteral"
  ELSE IF is_float_literal(value) THEN "FloatLiteral"
  ELSE IF is_valid_identifier(value) THEN "Identifier"
  ELSE IF is_valid_string(value) THEN "StringLiteral"
  ELSE IF is_valid_rune(value) THEN "RuneLiteral"
  ELSE "None"

\* a faulty could_match: a fixed token is matched whole, not as a prefix
could_match_WholeToken(input) ==
  \/ input \in TOKENS
  \/ is_valid_identifier(input)
  \/ (input # <<>> /\ All(input, is_ascii_digit))
  \/ (input # <<>> /\ Head(input) # "." /\ Count(input, ".") <= 1
        /\ All(input, IsDigitOrDot))

\* TokenKind::could_match
could_match(input) ==
  \/ \E t \in TOKENS : StartsWith(t, input)
  \/ is_valid_identifier(input)
  \/ (input # <<>> /\ All(input, is_ascii_digit))
  \/ (input # <<>> /\ Head(input) # "." /\ Count(input, ".") <= 1
        /\ All(input, IsDigitOrDot))

\* ------------------------------------------------------------------ tokens
Position_new(line, column_start, column_end) ==
  [line |-> line, column_start |-> column_start, column_end |-> column_end]

\* Token::new classifies the value itself
Token_new(value, position) ==
  [kind |-> from_str(value), value |-> value, position |-> position]

Token_new_with_kind(kind, value, position) ==
  [kind |-> kind, value |-> value, position |-> position]

LexerError_new(kind, text, position) ==
  [kind |-> kind, text |-> text, position |-> position]

NoToken == Token_new_with_kind("<no token>", <<>>, Position_new(0, 0, 0))

\* ------------------------------------------------------------------- lexer
Lexer_new(input) ==
  [ input |-> input,
    current_position |-> 0,
    anchor |-> 0,
    errors |-> <<>>,
    is_parsing_string |-> FALSE,
    is_parsing_rune |-> FALSE,
    newline_before_current_token |-> FALSE ]

\* Lexer::next: the bound is the byte length, the character is looked up by
\* character index, and the offset moves on even when no character is there
next(lx) ==
  IF lx.current_position >= ByteLen(lx.input)
  THEN [lx |-> lx, c |-> NoChar]
  ELSE [lx |-> [lx EXCEPT !.current_position = @ + 1],
        c |-> CharsNth(lx.input, lx.current_position)]

peek(lx) ==
  IF lx.current_position >= ByteLen(lx.input) THEN NoChar
  ELSE CharsNth(lx.input, lx.current_position)

peek_is_whitespace(lx) ==
  IF peek(lx) = NoChar THEN TRUE ELSE is_whitespace(peek(lx))

proposed_token(lx, already_iterated) ==
  Slice(lx.input, lx.anchor,
        lx.current_position - (IF already_iterated THEN 1 ELSE 0))

Min(a, b) == IF a <= b THEN a ELSE b

\* input[0..end].split('\n').count()
current_line(lx) ==
  LET end == Min(lx.current_position, ByteLen(lx.input))
      head == Slice(lx.input, 0, end)
  IN  [ok |-> head.ok, val |-> Count(head.val, "\n") + 1]

current_token_position(lx) ==
  LET line == current_line(lx)
  IN  [ok |-> line.ok,
       val |-> Position_new(line.val, lx.anchor, lx.current_position)]

\* The result of one step of the scan loop: st is "ret" (tok is returned),
\* "cont" (keep scanning) or "panic" (the slice or index failed).
Ret(lx, tok) == [lx |-> lx, tok |-> tok, st |-> "ret"]
Cont(lx) == [lx |-> lx, tok |-> NoToken, st |-> "cont"]
Panic(lx) == [lx |-> lx, tok |-> NoToken, st |-> "panic"]

\* a faulty Err arm: a lexeme that could still grow is reported as incomplete
tokenize_at_Incomplete(lx, value, pos) ==
  LET none == [tag |-> "None", tok |-> NoToken, err |-> NoToken]
      panic == [tag |-> "Panic", tok |-> NoToken, err |-> NoToken]
  IN  IF from_str(value) # "None"
      THEN IF /\ peek(lx) # NoChar
              /\ ~peek_is_whitespace(lx)
              /\ could_match(Append(value, peek(lx)))
           THEN none
           ELSE IF ~pos.ok THEN panic
           ELSE [tag |-> "Some", tok |-> Token_new(value, pos.val),
                 err |-> NoToken]
      ELSE IF ~peek_is_whitespace(lx) /\ could_match(value)
           THEN none
           ELSE IF ~pos.ok THEN panic
           ELSE [tag |-> "Err", tok |-> NoToken,
                 err |-> LexerError_new(
                           IF could_match(value) THEN "IncompleteToken"
                           ELSE "UnexpectedToken", value, pos.val)]

\* Lexer::tokenize with pos the value of self.current_token_position(), which
\* both returning arms take: tag is "Some" (Ok(Some(tok))), "None" (Ok(None)),
\* "Err" (Err(err)) or "Panic"
tokenize_at(lx, value, pos) ==
  LET none == [tag |-> "None", tok |-> NoToken, err |-> NoToken]
      panic == [tag |-> "Panic", tok |-> NoToken, err |-> NoToken]
  IN  IF from_str(value) # "None"
      THEN IF /\ peek(lx) # NoChar
              /\ ~peek_is_whitespace(lx)
              /\ could_match(Append(value, peek(lx)))
           THEN none
           ELSE IF ~pos.ok THEN panic
           ELSE [tag |-> "Some", tok |-> Token_new(value, pos.val),
                 err |-> NoToken]
      ELSE IF ~peek_is_whitespace(lx) /\ could_match(value)
           THEN none
           ELSE IF ~pos.ok THEN panic
           ELSE [tag |-> "Err", tok |-> NoToken,
                 err |-> LexerError_new("UnexpectedToken", value, pos.val)]

tokenize(lx, value) == tokenize_at(lx, value, current_token_position(lx))

\* a faulty Err arm: the token without a kind is returned but the error is
\* not pushed
PushError_NotPushed(lx, err) ==
  LET lx1 == [lx EXCEPT !.anchor = lx.current_position]
      pos == current_token_position(lx1)
  IN  IF ~pos.ok THEN Panic(lx) ELSE Ret(lx1, Token_new(<<>>, pos.val))

\* a faulty Err arm: the error is put in front of the list
PushError_Prepended(lx, err) ==
  LET lx1 == [lx EXCEPT !.errors = <<err>> \o @,
                        !.anchor = lx.current_position]
      pos == current_token_position(lx1)
  IN  IF ~pos.ok THEN Panic(lx) ELSE Ret(lx1, Token_new(<<>>, pos.val))

\* the Err arm shared by handle_word and handle_symbol
PushError(lx, err) ==
  LET lx1 == [lx EXCEPT !.errors = Append(@, err),
                        !.anchor = lx.current_position]
      pos == current_token_position(lx1)
  IN  IF ~pos.ok THEN Panic(lx) ELSE Ret(lx1, Token_new(<<>>, pos.val))

\* the match of handle_word on the result r of tokenize
handle_word_match(lx, r) ==
  IF r.tag = "Panic" THEN Panic(lx)
  ELSE IF r.tag = "Some"
       THEN IF r.tok.kind = "None" THEN Cont(lx)
            ELSE Ret([lx EXCEPT !.anchor = lx.current_position], r.tok)
  ELSE IF r.tag = "None" THEN Cont(lx)
  ELSE PushError(lx, r.err)

handle_word(lx) ==
  LET value == proposed_token(lx, FALSE)
  IN  IF ~value.ok THEN Panic(lx)
      ELSE handle_word_match(lx, tokenize(lx, value.val))

\* the match of handle_symbol on the result r of tokenize
handle_symbol_match(lx, r) ==
  IF r.tag = "Panic" THEN Panic(lx)
  ELSE IF r.tag = "Some"
       THEN Ret([lx EXCEPT !.anchor = lx.current_position], r.tok)
  ELSE IF r.tag = "None" THEN Cont(lx)
  ELSE PushError(lx, r.err)

handle_symbol(lx) ==
  LET value == proposed_token(lx, FALSE)
  IN  IF ~value.ok THEN Panic(lx)
      ELSE handle_symbol_match(lx, tokenize(lx, value.val))

handle_symbol_char(lx) ==
  LET symbol_pos == lx.current_position - 1
      pending == Slice(lx.input, lx.anchor, symbol_pos)
      back == [lx EXCEPT !.current_position = symbol_pos]
      line == current_line(back)
      position == Position_new(line.val, lx.anchor, symbol_pos)
  IN  IF lx.anchor < symbol_pos /\ ~pending.ok THEN Panic(lx)
      ELSE IF lx.anchor < symbol_pos /\ ~All(pending.val, is_symbol)
      THEN IF ~line.ok THEN Panic(lx)
           ELSE IF from_str(pending.val) # "None"
           THEN Ret([back EXCEPT !.anchor = symbol_pos],
                    Token_new(pending.val, position))
           ELSE Ret([back EXCEPT
                       !.errors = Append(@, LexerError_new(
                           "UnexpectedToken", pending.val, position)),
                       !.anchor = symbol_pos],
                    Token_new(<<>>, position))
      ELSE handle_symbol(lx)

finalize_string(lx) ==
  LET content == Slice(lx.input, lx.anchor, lx.current_position)
      pos == current_token_position(lx)
  IN  IF ~content.ok \/ ~pos.ok THEN Panic(lx)
      ELSE Ret([lx EXCEPT !.is_parsing_string = FALSE,
                          !.anchor = lx.current_position],
               Token_new_with_kind("StringLiteral", content.val, pos.val))

finalize_rune(lx) ==
  LET content == Slice(lx.input, lx.anchor, lx.current_position)
      pos == current_token_position(lx)
  IN  IF ~content.ok \/ ~pos.ok THEN Panic(lx)
      ELSE Ret([lx EXCEPT !.is_parsing_rune = FALSE,
                          !.anchor = lx.current_position],
               Token_new_with_kind("RuneLiteral", content.val, pos.val))

handle_whitespace(lx) ==
  [lx EXCEPT
     !.newline_before_current_token =
        IF CharsNth(lx.input, lx.current_position - 1) = "\n" THEN TRUE ELSE @,
     !.anchor = lx.current_position]

\* the three arms of next_token that report an unterminated literal
Unterminated(lx, kind, flag) ==
  LET text == proposed_token(lx, FALSE)
      errpos == current_token_position(lx)
      lx1 == [lx EXCEPT
                !.errors = Append(@, LexerError_new(kind, text.val, errpos.val)),
                ![flag] = FALSE,
                !.anchor = lx.current_position]
      pos == current_token_position(lx1)
  IN  IF ~text.ok \/ ~errpos.ok \/ ~pos.ok THEN Panic(lx)
      ELSE Ret(lx1, Token_new(<<>>, pos.val))

\* the end-of-input arm of next_token
EndOfInput(lx) ==
  LET pos == current_token_position(lx)
  IN  IF lx.is_parsing_string
      THEN Unterminated(lx, "UnterminatedString", "is_parsing_string")
      ELSE IF lx.is_parsing_rune
      THEN Unterminated(lx, "UnterminatedRune", "is_parsing_rune")
      ELSE IF ~pos.ok THEN Panic(lx)
      ELSE Ret(lx, Token_new_with_kind("EOF", <<>>, pos.val))

\* one pass through the loop of next_token after next() returned ch
Step(lx, ch) ==
  IF ch = NoChar THEN EndOfInput(lx)
  ELSE IF is_whitespace(ch) /\ ~lx.is_parsing_string /\ ~lx.is_parsing_rune
  THEN Cont(handle_whitespace(lx))
  ELSE IF is_whitespace(ch) /\ lx.is_parsing_rune
  THEN Unterminated(lx, "UnterminatedRune", "is_parsing_rune")
  ELSE IF ch = "\""
  THEN IF lx.is_parsing_string THEN finalize_string(lx)
       ELSE Cont([lx EXCEPT !.is_parsing_string = TRUE,
                            !.anchor = lx.current_position - 1])
  ELSE IF ch = "'"
  THEN IF lx.is_parsing_rune THEN finalize_rune(lx)
       ELSE Cont([lx EXCEPT !.is_parsing_rune = TRUE,
                            !.anchor = lx.current_position - 1])
  ELSE IF lx.is_parsing_string \/ lx.is_parsing_rune
  THEN IF ch = "\\" THEN Cont(next(lx).lx) ELSE Cont(lx)
  ELSE IF is_symbol(ch) THEN handle_symbol_char(lx)
  ELSE handle_word(lx)

\* Lexer::next_token
RECURSIVE next_token(_)
\* the loop of next_token goes round again unless the pass r returned
Loop(r) == IF r.st = "cont" THEN next_token(r.lx) ELSE r

next_token(lx) ==
  LET n == next(lx)
  IN  Loop(Step(n.lx, n.c))

\* the loop of peek_tokens: n more next_token calls, toks collected so far
RECURSIVE peek_loop(_, _, _)
peek_loop_push(r, toks, n) ==
  IF r.st = "panic" THEN [lx |-> r.lx, toks |-> toks, st |-> "panic"]
  ELSE peek_loop(r.lx, Append(toks, r.tok), n - 1)

peek_loop(lx, toks, n) ==
  IF n = 0 THEN [lx |-> lx, toks |-> toks, st |-> "ret"]
  ELSE peek_loop_push(next_token(lx), toks, n)

\* a faulty end of peek_tokens: the anchor is not put back
peek_restore_NoAnchor(lx, r) ==
  [r EXCEPT !.lx = [@ EXCEPT !.current_position = lx.current_position,
                             !.is_parsing_string = lx.is_parsing_string,
                             !.is_parsing_rune = lx.is_parsing_rune]]

\* the end of peek_tokens: the four saved fields of lx are put back into
\* the lexer r.lx that the loop left
peek_restore(lx, r) ==
  [r EXCEPT !.lx = [@ EXCEPT !.current_position = lx.current_position,
                             !.anchor = lx.anchor,
                             !.is_parsing_string = lx.is_parsing_string,
                             !.is_parsing_rune = lx.is_parsing_rune]]

\* Lexer::peek_tokens
peek_tokens(lx, lookahead) == peek_restore(lx, peek_loop(lx, <<>>, lookahead))

\* Lexer::had_newline_before_current_token
had_newline_before_current_token(lx) ==
  [lx |-> [lx EXCEPT !.newline_before_current_token = FALSE],
   val |-> lx.newline_before_current_token]

\* ------------------------------------------------------------------ parser
\* the element of a set of one element: The({F(q) : q \in {e}}) is F(e)
\* with e worked out once, as a method works on the value a call returned
The(S) == CHOOSE x \in S : TRUE

\* The parser names the kinds of three keywords TokenKind::Package, ::Import
\* and ::Func; they are the kinds the tokenizer gives to those words.
Package == "Keyword(Package)"
Import == "Keyword(Import)"
Func == "Keyword(Func)"

Token_new_before_start ==
  Token_new_with_kind("BeforeStart", <<>>, Position_new(0, 0, 0))

ParserError_new(kind, text, position) ==
  [kind |-> kind, text |-> text, position |-> position]

\* Result values: Ok(val) or Err(val), with the parser ps as it is then
Ok(ps, val) == [ps |-> ps, ok |-> TRUE, val |-> val]
Err(ps, error) == [ps |-> ps, ok |-> FALSE, val |-> error]

\* the Lexer objects, and their next_token method as the parser calls it:
\* ps.next_token[ps.lexer] is self.lexer.next_token()
Lexers ==
  [ input : Seq(STRING),
    current_position : Int,
    anchor : Int,
    errors : Seq([kind : STRING, text : Seq(STRING),
                  position : [line : Int, column_start : Int,
                              column_end : Int]]),
    is_parsing_string : BOOLEAN,
    is_parsing_rune : BOOLEAN,
    newline_before_current_token : BOOLEAN ]

Lexer_next_token == [lx \in Lexers |-> next_token(lx)]

\* Parser::new after the first next_token call returned r.  A parser whose
\* tokenizer failed is marked panicked and holds no token; advances counts
\* the advance() calls made, consumed those that took a token other than EOF.
Parser_new_on(r) ==
  [ lexer |-> r.lx,
    next_token |-> Lexer_next_token,
    current_token |-> Token_new_before_start,
    peek_token |-> IF r.st = "panic" THEN NoToken ELSE r.tok,
    errors |-> <<>>,
    panicked |-> (r.st = "panic"),
    advances |-> 0,
    consumed |-> 0 ]

Parser_new(input) == The({Parser_new_on(q) :
                           q \in {next_token(Lexer_new(input))}})

\* the mutated step: the new token becomes current_token as well, and the
\* token that was peeked is never current
advance_on_Skipping(ps, r) ==
  IF r.st = "panic"
  THEN [ps EXCEPT !.panicked = TRUE, !.current_token = NoToken,
                  !.peek_token = NoToken]
  ELSE [ps EXCEPT !.current_token = r.tok,
                  !.peek_token = r.tok,
                  !.lexer = r.lx,
                  !.advances = @ + 1,
                  !.consumed = @ + 1]

\* Parser::advance when the tokenizer is asked and its call returned r
advance_on(ps, r) ==
  IF r.st = "panic"
  THEN [ps EXCEPT !.panicked = TRUE, !.current_token = NoToken,
                  !.peek_token = NoToken]
  ELSE [ps EXCEPT !.current_token = ps.peek_token,
                  !.peek_token = r.tok,
                  !.lexer = r.lx,
                  !.advances = @ + 1,
                  !.consumed = @ + 1]

\* Parser::advance
advance(ps) ==
  IF ps.panicked THEN ps
  ELSE IF ps.peek_token.kind # "EOF"
  THEN The({advance_on(ps, q) : q \in {ps.next_token[ps.lexer]}})
  ELSE [ps EXCEPT !.current_token = ps.peek_token,
                  !.peek_token = Token_new_with_kind(
                                   "EOF", <<>>, ps.peek_token.position),
                  !.advances = @ + 1]

\* Parser::synchronize
RECURSIVE synchronize(_)
synchronize(ps) ==
  IF ps.panicked \/ ps.peek_token.kind \in {"EOF", "Semicolon"} THEN ps
  ELSE The({synchronize(q) : q \in {advance(ps)}})

\* the Ok arm of expect_token: the token that advance() made current
expect_token_ok(ps) == Ok(ps, ps.current_token)

\* the mismatch arm of expect_token
expect_token_mismatch(ps, error) ==
  The({Err(q, error) :
        q \in {synchronize([ps EXCEPT !.errors = Append(@, error)])}})

\* Parser::expect_token
expect_token(ps, kind) ==
  IF ps.peek_token.kind = kind THEN The({expect_token_ok(q) :
                                          q \in {advance(ps)}})
  ELSE expect_token_mismatch(
         ps, ParserError_new("UnexpectedToken", ps.peek_token.value,
                             ps.peek_token.position))

\* Parser::is_end_of_line: the answer, and the parser with the flag cleared
is_end_of_line(ps) ==
  IF ps.peek_token.kind = "EOF" THEN [ps |-> ps, val |-> TRUE]
  ELSE [ps |-> [ps EXCEPT !.lexer =
                   had_newline_before_current_token(ps.lexer).lx],
        val |-> had_newline_before_current_token(ps.lexer).val]

\* the position handle_semicolon_insertion returns after advance()
semicolon_position(ps) == Ok(ps, ps.current_token.position)

\* the mutated arms: a newline before the next token is not accepted
semicolon_inserted_NoNewline(r) ==
  IF r.val /\ r.ps.peek_token.kind = "EOF"
  THEN Ok(r.ps, r.ps.current_token.position)
  ELSE Err(r.ps,
           ParserError_new(
             "UnexpectedToken",
             <<"Expected ';' to separate statements on same line, got '">>
               \o r.ps.peek_token.value \o <<"'">>,
             r.ps.peek_token.position))

\* the two arms of handle_semicolon_insertion without a semicolon
semicolon_inserted(r) ==
  IF r.val THEN Ok(r.ps, r.ps.current_token.position)
  ELSE Err(r.ps,
           ParserError_new(
             "UnexpectedToken",
             <<"Expected ';' to separate statements on same line, got '">>
               \o r.ps.peek_token.value \o <<"'">>,
             r.ps.peek_token.position))

\* Parser::handle_semicolon_insertion
handle_semicolon_insertion(ps) ==
  IF ps.peek_token.kind = "Semicolon" THEN The({semicolon_position(q) :
                                                 q \in {advance(ps)}})
  ELSE The({semicolon_inserted(q) : q \in {is_end_of_line(ps)}})

\* ast.rs: expressions and statements
Expression_new(kind, position_start, position_end) ==
  [kind |-> kind, position_start |-> position_start,
   position_end |-> position_end]

Expression_new_identifier(value, position) ==
  Expression_new([tag |-> "Identifier", value |-> value], position, position)

Expression_new_integer_literal(value, position) ==
  Expression_new([tag |-> "IntegerLiteral", value |-> value],
                 position, position)

Expression_new_string_literal(value, position) ==
  Expression_new([tag |-> "StringLiteral", value |-> value],
                 position, position)

Expression_new_function_call(name, arguments, start_pos, end_pos) ==
  Expression_new([tag |-> "FunctionCall", name |-> name,
                  arguments |-> arguments], start_pos, end_pos)

Expression_new_field_access(object, field, start_pos, end_pos) ==
  Expression_new([tag |-> "FieldAccess", object |-> object, field |-> field],
                 start_pos, end_pos)

Statement_new(kind, position_start, position_end) ==
  [kind |-> kind, position_start |-> position_start,
   position_end |-> position_end]

\* the mutated constructor: the name is not kept
Statement_new_package_declaration_Unnamed(name, start_pos, end_pos) ==
  Statement_new([tag |-> "PackageDeclaration", name |-> <<>>],
                start_pos, end_pos)

Statement_new_package_declaration(name, start_pos, end_pos) ==
  Statement_new([tag |-> "PackageDeclaration", name |-> name],
                start_pos, end_pos)

Statement_new_import_declaration(path, start_pos, end_pos) ==
  Statement_new([tag |-> "ImportDeclaration", path |-> path],
                start_pos, end_pos)

Statement_new_function_declaration(name, parameters, body, start, end) ==
  Statement_new([tag |-> "FunctionDeclaration", name |-> name,
                 parameters |-> parameters, body |-> body],
                start, end)

Statement_new_expression_statement(expression, start_pos, end_pos) ==
  Statement_new([tag |-> "Expression", expression |-> expression],
                start_pos, end_pos)

RECURSIVE parse_expression(_), trailers(_, _), arguments(_, _, _)

\* the mutated step: the field is taken from the expression the chain began
\* with, not from the one built so far
field_access_Unchained(r, expression) ==
  IF ~r.ok THEN r
  ELSE trailers(r.ps,
                Expression_new_field_access(
                  IF expression.kind.tag = "Identifier" THEN expression
                  ELSE IF expression.kind.tag = "FieldAccess"
                  THEN expression.kind.object
                  ELSE expression.kind.name,
                  r.val.value, expression.position_start, r.val.position))

\* new_field_access once the field name was expected (r)
field_access(r, expression) ==
  IF ~r.ok THEN r
  ELSE trailers(r.ps,
                Expression_new_field_access(
                  expression, r.val.value,
                  expression.position_start, r.val.position))

\* new_function_call once the ')' was expected (r)
call_close(r, args, expression) ==
  IF ~r.ok THEN r
  ELSE trailers(r.ps,
                Expression_new_function_call(
                  expression, args,
                  expression.position_start, r.val.position))

\* the argument loop after parse_expression()? returned r
argument_parsed(r, args, expression) ==
  IF ~r.ok THEN r
  ELSE IF r.ps.peek_token.kind = "Comma"
  THEN The({arguments(q, Append(args, r.val), expression) :
             q \in {advance(r.ps)}})
  ELSE The({call_close(q, Append(args, r.val), expression) :
             q \in {expect_token(r.ps, "RightParen")}})

\* one iteration of the argument loop
arguments(ps, args, expression) ==
  The({argument_parsed(q, args, expression) : q \in {parse_expression(ps)}})

\* the LeftParen arm after the '(' was consumed
call_arguments(ps, expression) ==
  IF ps.peek_token.kind # "RightParen"
  THEN arguments(ps, <<>>, expression)
  ELSE The({call_close(q, <<>>, expression) :
             q \in {expect_token(ps, "RightParen")}})

\* the trailer loop of parse_identifier_expression
trailers(ps, expression) ==
  IF ps.peek_token.kind = "Dot"
  THEN The({field_access(q, expression) :
             q \in {expect_token(a, "Identifier") : a \in {advance(ps)}}})
  ELSE IF ps.peek_token.kind = "LeftParen"
  THEN The({call_arguments(q, expression) : q \in {advance(ps)}})
  ELSE Ok(ps, expression)

\* parse_identifier_expression once the identifier was expected (r)
identifier_expected(r) ==
  IF ~r.ok THEN r
  ELSE trailers(r.ps, Expression_new_identifier(r.val.value, r.val.position))

\* Parser::parse_identifier_expression
parse_identifier_expression(ps) ==
  The({identifier_expected(q) : q \in {expect_token(ps, "Identifier")}})

\* the IntegerLiteral arm of parse_expression
integer_expected(r) ==
  IF ~r.ok THEN r
  ELSE Ok(r.ps, Expression_new_integer_literal(r.val.value, r.val.position))

\* the StringLiteral arm of parse_expression
string_expected(r) ==
  IF ~r.ok THEN r
  ELSE Ok(r.ps, Expression_new_string_literal(r.val.value, r.val.position))

\* Parser::parse_expression
parse_expression(ps) ==
  IF ps.peek_token.kind = "Identifier" THEN parse_identifier_expression(ps)
  ELSE IF ps.peek_token.kind = "IntegerLiteral"
  THEN The({integer_expected(q) : q \in {expect_token(ps, "IntegerLiteral")}})
  ELSE IF ps.peek_token.kind = "StringLiteral"
  THEN The({string_expected(q) : q \in {expect_token(ps, "StringLiteral")}})
  ELSE Err(ps, ParserError_new("UnexpectedToken", ps.peek_token.value,
                               ps.peek_token.position))

\* parse_expression_statement after handle_semicolon_insertion()? returned s
expression_statement_made(s, expression) ==
  IF ~s.ok THEN s
  ELSE Ok(s.ps, Statement_new_expression_statement(
                  expression, expression.position_start, s.val))

\* parse_expression_statement after parse_expression()? returned r
expression_parsed(r) ==
  IF ~r.ok THEN r
  ELSE The({expression_statement_made(q, r.val) :
             q \in {handle_semicolon_insertion(r.ps)}})

\* Parser::parse_expression_statement
parse_expression_statement(ps) == The({expression_parsed(q) :
                                        q \in {parse_expression(ps)}})

\* parse_package_declaration after handle_semicolon_insertion()? returned s
package_made(s, name_value, package_pos) ==
  IF ~s.ok THEN s
  ELSE Ok(s.ps, Statement_new_package_declaration(
                  name_value, package_pos, s.val))

\* parse_package_declaration once the name was expected (r)
package_name_expected(r, package_pos) ==
  IF ~r.ok THEN r
  ELSE The({package_made(q, r.val.value, package_pos) :
             q \in {handle_semicolon_insertion(r.ps)}})

\* parse_package_declaration once the keyword was expected (r)
package_expected(r) ==
  IF ~r.ok THEN r
  ELSE The({package_name_expected(q, r.val.position) :
             q \in {expect_token(r.ps, "Identifier")}})

\* Parser::parse_package_declaration
parse_package_declaration(ps) == The({package_expected(q) :
                                       q \in {expect_token(ps, Package)}})

\* parse_import_declaration after handle_semicolon_insertion()? returned s
import_made(s, path_value, import_pos) ==
  IF ~s.ok THEN s
  ELSE Ok(s.ps, Statement_new_import_declaration(
                  path_value, import_pos, s.val))

\* parse_import_declaration once the path was expected (r)
import_path_expected(r, import_pos) ==
  IF ~r.ok THEN r
  ELSE The({import_made(q, r.val.value, import_pos) :
             q \in {handle_semicolon_insertion(r.ps)}})

\* parse_import_declaration once the keyword was expected (r)
import_expected(r) ==
  IF ~r.ok THEN r
  ELSE The({import_path_expected(q, r.val.position) :
             q \in {expect_token(r.ps, "StringLiteral")}})

\* Parser::parse_import_declaration
parse_import_declaration(ps) == The({import_expected(q) :
                                      q \in {expect_token(ps, Import)}})

RECURSIVE parse_statement(_), function_body(_, _, _, _)

\* the mutated step: the last statement of the body is left out
function_closed_BodyCut(r, body, func_pos, func_name) ==
  IF ~r.ok THEN r
  ELSE Ok(r.ps, Statement_new_function_declaration(
                  func_name, <<>>, SubSeq(body, 1, Len(body) - 1), func_pos,
                  r.val.position))

\* new_function_declaration once the '}' was expected (r)
function_closed(r, body, func_pos, func_name) ==
  IF ~r.ok THEN r
  ELSE Ok(r.ps, Statement_new_function_declaration(
                  func_name, <<>>, body, func_pos, r.val.position))

\* the body loop after parse_statement()? returned r
body_statement_parsed(r, body, func_pos, func_name) ==
  IF ~r.ok THEN r
  ELSE function_body(r.ps, Append(body, r.val), func_pos, func_name)

\* the body loop of parse_function_declaration
function_body(ps, body, func_pos, func_name) ==
  IF ps.peek_token.kind = "RightBrace"
  THEN The({function_closed(q, body, func_pos, func_name) :
             q \in {expect_token(ps, "RightBrace")}})
  ELSE IF ps.peek_token.kind = "EOF"
  THEN Err(ps, ParserError_new(
                 "UnexpectedToken",
                 <<"Expected '}' to close function body">>,
                 ps.peek_token.position))
  ELSE The({body_statement_parsed(q, body, func_pos, func_name) :
             q \in {parse_statement(ps)}})

\* the mutated step: the declaration is made at the '{', with no body and
\* no closing brace
function_brace_expected_Closed(r, func_pos, func_name) ==
  IF ~r.ok THEN r
  ELSE Ok(r.ps, Statement_new_function_declaration(
                  func_name, <<>>, <<>>, func_pos, r.val.position))

\* parse_function_declaration once the '{' was expected (r)
function_brace_expected(r, func_pos, func_name) ==
  IF ~r.ok THEN r ELSE function_body(r.ps, <<>>, func_pos, func_name)

\* parse_function_declaration once the ')' was expected (r)
function_right_paren_expected(r, func_pos, func_name) ==
  IF ~r.ok THEN r
  ELSE The({function_brace_expected(q, func_pos, func_name) :
             q \in {expect_token(r.ps, "LeftBrace")}})

\* parse_function_declaration once the '(' was expected (r)
function_left_paren_expected(r, func_pos, func_name) ==
  IF ~r.ok THEN r
  ELSE The({function_right_paren_expected(q, func_pos, func_name) :
             q \in {expect_token(r.ps, "RightParen")}})

\* parse_function_declaration once the name was expected (r)
function_name_expected(r, func_pos) ==
  IF ~r.ok THEN r
  ELSE The({function_left_paren_expected(q, func_pos, r.val.value) :
             q \in {expect_token(r.ps, "LeftParen")}})

\* parse_function_declaration once the keyword was expected (r)
function_expected(r) ==
  IF ~r.ok THEN r
  ELSE The({function_name_expected(q, r.val.position) :
             q \in {expect_token(r.ps, "Identifier")}})

\* Parser::parse_function_declaration
parse_function_declaration(ps) == The({function_expected(q) :
                                        q \in {expect_token(ps, Func)}})

\* Parser::parse_statement
parse_statement(ps) ==
  IF ps.peek_token.kind = Package THEN parse_package_declaration(ps)
  ELSE IF ps.peek_token.kind = Import THEN parse_import_declaration(ps)
  ELSE IF ps.peek_token.kind = Func THEN parse_function_declaration(ps)
  ELSE parse_expression_statement(ps)

\* the parser's part of the state when no Parser was constructed, and the
\* bookkeeping of the parse() calls: pc is where the caller or parse() is,
\* returns what each parse() call did, entered the number of stored errors
\* at the latest entry, iterations, failed and forced the loop's turns, its
\* Err arms and its forced advances
NoParser ==
  [ current_token |-> NoToken, peek_token |-> NoToken, errors |-> <<>>,
    advances |-> 0, consumed |-> 0, pc |-> "none", statements |-> <<>>,
    returns |-> <<>>,
    entered |-> 0, iterations |-> 0, failed |-> 0, forced |-> 0 ]

\* ----------------------------------------------------------- state machine
\* what ret holds for a call of op with argument n returning toks or val
Call(op, n, toks, val) == [op |-> op, n |-> n, toks |-> toks, val |-> val]

Alphabet == {"a", ".", "\"", "'", "\\", " ", "\n", Wide}

RECURSIVE Texts(_, _)
Texts(alphabet, n) ==
  IF n = 0 THEN {<<>>}
  ELSE LET shorter == Texts(alphabet, n - 1)
       IN  shorter \cup {Append(s, c) : s \in shorter, c \in alphabet}

Inputs == Texts(Alphabet, MaxLen)

InitWith(inputs) ==
  /\ lexer \in {Lexer_new(i) : i \in inputs}
  /\ prev = lexer
  /\ tokens = <<>>
  /\ calls = 0
  /\ panicked = FALSE
  /\ ret = Call("none", 0, <<>>, FALSE)
  /\ asked = 0
  /\ parser = NoParser

Init == InitWith(Inputs)

\* the caller (CLI::handle_dump_tokens, Parser::advance) calls next_token
NextTokenCall ==
  /\ ~panicked
  /\ calls < MaxCalls
  /\ \E r \in {next_token(lexer)} :
         /\ calls' = calls + 1
         /\ prev' = lexer
         /\ panicked' = (r.st = "panic")
         /\ lexer' = IF r.st = "panic" THEN lexer ELSE r.lx
         /\ tokens' = IF r.st = "panic" THEN tokens ELSE Append(tokens, r.tok)
         /\ ret' = Call("next_token", 0, <<>>, FALSE)
         /\ asked' = 0
         /\ UNCHANGED parser

\* a caller looks n tokens ahead
PeekTokensCall ==
  /\ ~panicked
  /\ calls < MaxPeekCalls
  /\ \E n \in 0..MaxLookahead :
       \E r \in {peek_tokens(lexer, n)} :
         /\ calls' = calls + 1
         /\ prev' = lexer
         /\ panicked' = (r.st = "panic")
         /\ lexer' = IF r.st = "panic" THEN lexer ELSE r.lx
         /\ ret' = Call("peek_tokens", n,
                        IF r.st = "panic" THEN <<>> ELSE r.toks, FALSE)
         /\ UNCHANGED <<tokens, asked, parser>>

\* a caller (Parser::had_newline_before_current_token) asks for the flag
HadNewlineCall ==
  /\ ~panicked
  /\ calls < MaxQueryCalls
  /\ \E r \in {had_newline_before_current_token(lexer)} :
       /\ calls' = calls + 1
       /\ prev' = lexer
       /\ lexer' = r.lx
       /\ ret' = Call("had_newline_before_current_token", 0, <<>>, r.val)
       /\ asked' = asked + 1
       /\ UNCHANGED <<tokens, panicked, parser>>

\* a caller classifies the whole text (Token::new, TokenKind::is_tokenizeable)
FromStrCall ==
  /\ ret.op # "from_str"
  /\ ret' = Call("from_str", 0, lexer.input, from_str(lexer.input))
  /\ UNCHANGED <<lexer, prev, tokens, calls, panicked, asked, parser>>

\* a caller asks whether the whole text could grow into a token
CouldMatchCall ==
  /\ ret.op # "could_match"
  /\ ret' = Call("could_match", 0, lexer.input, could_match(lexer.input))
  /\ UNCHANGED <<lexer, prev, tokens, calls, panicked, asked, parser>>

Next == NextTokenCall

Spec == Init /\ [][Next]_vars

\* every operation of the Lexer object, on short texts
MaxPeekLen == 3
PeekAlphabet == {"a", "\"", "'", "\n"}

NextPeek == NextTokenCall \/ PeekTokensCall \/ HadNewlineCall

SpecPeek == InitWith(Texts(PeekAlphabet, MaxPeekLen)) /\ [][NextPeek]_vars

\* the classifier on its own, on short texts
MaxClassifyLen == 4
ClassifyAlphabet == {"1", ".", "a", "\"", "'", "\\", "=", "$"}

NextClassify == FromStrCall \/ CouldMatchCall

SpecClassify ==
  InitWith(Texts(ClassifyAlphabet, MaxClassifyLen)) /\ [][NextClassify]_vars

\* a consumer that scans and asks for the newline flag, without lookahead
NextQuery == NextTokenCall \/ HadNewlineCall

SpecQuery == InitWith(Texts(PeekAlphabet, MaxPeekLen)) /\ [][NextQuery]_vars

\* every operation of the Lexer object, on short one-line texts of one-byte
\* characters
SpecErrors ==
  InitWith(Texts(Alphabet \ {Wide, "\n"}, MaxPeekLen)) /\ [][NextPeek]_vars

\* ------------------------------------------------------ parser state machine
\* the texts handed to Parser::new: up to MaxChunks pieces of source text
MaxChunks == 3
MaxParses == 2

\* the head of a function declaration, as one piece
FuncHead == <<"f", "u", "n", "c", " ", "a", "(", ")", "{">>

Chunks ==
  { <<"a">>, <<"1">>, <<";">>, <<"\n">>, <<".">>, <<"(">>, <<")">>, <<",">>,
    <<"}">>, <<"\"">>, FuncHead, <<Wide>> }

\* no text has more tokens than this, so no parse() has more turns
MaxIterations == Len(FuncHead) * MaxChunks + 1

RECURSIVE ChunkTexts(_)
ChunkTexts(n) ==
  IF n = 0 THEN {<<>>}
  ELSE ChunkTexts(n - 1)
         \cup {s \o c : s \in ChunkTexts(n - 1), c \in Chunks}

\* the Parser object as the joined record the parser's methods work on
Self ==
  [ lexer |-> lexer,
    next_token |-> Lexer_next_token,
    current_token |-> parser.current_token,
    peek_token |-> parser.peek_token,
    errors |-> parser.errors,
    panicked |-> panicked,
    advances |-> parser.advances,
    consumed |-> parser.consumed ]

\* the fields of the Parser object after a method left it as ps
Fields(p, ps) ==
  [p EXCEPT !.current_token = ps.current_token,
            !.peek_token = ps.peek_token,
            !.errors = ps.errors,
            !.advances = ps.advances,
            !.consumed = ps.consumed]

\* the state after Parser::new(input)
InitParser(inputs) ==
  \E input \in inputs :
    \E ps \in {Parser_new(input)} :
      /\ lexer = ps.lexer
      /\ panicked = ps.panicked
      /\ parser = Fields([NoParser EXCEPT !.pc = "idle"], ps)
      /\ prev = lexer
      /\ tokens = <<>>
      /\ calls = 0
      /\ ret = Call("none", 0, <<>>, FALSE)
      /\ asked = 0

\* the mutated test of parse(): stored errors are never returned
has_errors_Never(ps) == FALSE

\* parse(): the test that returns the stored errors at once
has_errors(ps) == ps.errors # <<>>

\* the mutated loop of parse(): no advance after synchronize()
forced_advance_Skipped(ps) == ps

\* parse(): the advance that follows synchronize() in the Err arm
forced_advance(ps) ==
  IF ps.peek_token.kind # "EOF" THEN advance(ps) ELSE ps

\* parse(): the Err arm once synchronize() returned ps
recovered(ps) ==
  [ ps |-> forced_advance(ps), pushed |-> <<>>, failed |-> 1,
    forced |-> IF ps.peek_token.kind # "EOF" THEN 1 ELSE 0 ]

\* the mutated Err arm of parse(): the statement's error is not kept
statement_parsed_ErrorDropped(r) ==
  IF r.ok
  THEN [ps |-> r.ps, pushed |-> <<r.val>>, failed |-> 0, forced |-> 0]
  ELSE The({recovered(q) : q \in {synchronize(r.ps)}})

\* parse(): the match on what parse_statement() returned
statement_parsed(r) ==
  IF r.ok
  THEN [ps |-> r.ps, pushed |-> <<r.val>>, failed |-> 0, forced |-> 0]
  ELSE The({recovered(q) :
              q \in {synchronize([r.ps EXCEPT !.errors = Append(@, r.val)])}})

\* parse(): one iteration of the Program-level loop
parse_iteration(ps) ==
  The({statement_parsed(q) : q \in {parse_statement(ps)}})

\* what one parse() call did: its result, and the number of stored errors
\* when it was entered and when it returned
Return(ok, val, entered, left) ==
  [ok |-> ok, val |-> val, entered |-> entered, left |-> left]

\* a caller calls parse(): it returns the stored errors, or enters the loop
ParseEnter ==
  /\ ~panicked
  /\ parser.pc = "idle"
  /\ Len(parser.returns) < MaxParses
  /\ parser' =
       IF has_errors(Self)
       THEN [parser EXCEPT !.returns =
               Append(@, Return(FALSE, parser.errors, Len(parser.errors),
                                Len(parser.errors)))]
       ELSE [parser EXCEPT !.pc = "loop", !.statements = <<>>,
                           !.entered = Len(parser.errors),
                           !.iterations = 0]
  /\ UNCHANGED <<lexer, prev, tokens, calls, panicked, ret, asked>>

\* parse(): one turn of `while peek is not EOF`
ParseIteration ==
  /\ ~panicked
  /\ parser.pc = "loop"
  /\ parser.peek_token.kind # "EOF"
  /\ parser.iterations < MaxIterations
  /\ \E r \in {parse_iteration(Self)} :
       /\ lexer' = r.ps.lexer
       /\ panicked' = r.ps.panicked
       /\ parser' = [Fields(parser, r.ps) EXCEPT
                       !.statements = @ \o r.pushed,
                       !.iterations = @ + 1,
                       !.failed = @ + r.failed,
                       !.forced = @ + r.forced]
  /\ UNCHANGED <<prev, tokens, calls, ret, asked>>

\* parse(): the loop ends at EOF and Ok(Program) is returned
ParseExit ==
  /\ ~panicked
  /\ parser.pc = "loop"
  /\ parser.peek_token.kind = "EOF"
  /\ parser' = [parser EXCEPT
                  !.pc = "idle",
                  !.returns = Append(@, Return(TRUE, parser.statements,
                                               parser.entered,
                                               Len(parser.errors)))]
  /\ UNCHANGED <<lexer, prev, tokens, calls, panicked, ret, asked>>

NextParse == ParseEnter \/ ParseIteration \/ ParseExit

SpecParse == InitParser(ChunkTexts(MaxChunks)) /\ [][NextParse]_vars

\* a caller that only calls advance(), as the tests of the lookahead do;
\* tokens holds the tokens the calls returned, prev the tokenizer before the
\* latest call; the texts have up to MaxAdvanceChunks pieces
MaxAdvances == 5
MaxAdvanceChunks == 2

AdvanceCall ==
  /\ ~panicked
  /\ parser.pc = "idle"
  /\ parser.advances < MaxAdvances
  /\ \E ps \in {advance(Self)} :
       /\ lexer' = ps.lexer
       /\ panicked' = ps.panicked
       /\ parser' = Fields(parser, ps)
       /\ tokens' = IF ps.panicked THEN tokens
                    ELSE Append(tokens, ps.current_token)
  /\ prev' = lexer
  /\ UNCHANGED <<calls, ret, asked>>

SpecAdvance ==
  InitParser(ChunkTexts(MaxAdvanceChunks)) /\ [][AdvanceCall]_vars

\* statements on one or several lines: short texts of an identifier, ';',
\* newline, space and a token no statement starts with
MaxLineLen == 5
LineAlphabet == {"a", ";", "\n", " ", ")"}

SpecLines == InitParser(Texts(LineAlphabet, MaxLineLen)) /\ [][NextParse]_vars

\* declarations: texts of up to MaxDeclChunks pieces, the keywords of the
\* three declarations, a string, a function head, an identifier, one line and
\* two lines of an identifier, ';' and '}'
MaxDeclChunks == 3
DeclChunks ==
  { <<"p", "a", "c", "k", "a", "g", "e", " ">>,
    <<"i", "m", "p", "o", "r", "t", " ">>,
    <<"\"", "f", "\"">>, FuncHead, <<"a">>, <<"a", "\n">>,
    <<"a", "\n", "a", "\n">>, <<";">>, <<"}">> }

\* the text made of the pieces one after the other
RECURSIVE Joined(_)
Joined(pieces) ==
  IF pieces = <<>> THEN <<>> ELSE Head(pieces) \o Joined(Tail(pieces))

SpecDecls ==
  InitParser({Joined(t) : t \in Texts(DeclChunks, MaxDeclChunks)})
    /\ [][NextParse]_vars

\* function bodies: texts of up to MaxBodyChunks pieces, a function head, a
\* statement with and without its newline, ';' and '}'
MaxBodyChunks == 4
BodyChunks == {FuncHead, <<"a">>, <<"a", "\n">>, <<";">>, <<"}">>}

SpecBodies ==
  InitParser({Joined(t) : t \in Texts(BodyChunks, MaxBodyChunks)})
    /\ [][NextParse]_vars

\* chains: texts of up to MaxCallChunks pieces, an identifier alone and
\* with two fields, a field access and calls with one, two and no arguments
MaxCallChunks == 3
CallChunks ==
  { <<"a">>, <<"a", ".", "b", ".", "c">>, <<".", "c">>, <<"(", "d", ")">>,
    <<"(", "e", ",", "1", ")">>, <<"(", ")">> }

SpecCalls ==
  InitParser({Joined(t) : t \in Texts(CallChunks, MaxCallChunks)})
    /\ [][NextParse]_vars

\* ------------------------------------------------------------ observations
Kinds(toks) == [i \in DOMAIN toks |-> toks[i].kind]
Values(toks) == [i \in DOMAIN toks |-> toks[i].value]

LastToken == tokens[Len(tokens)]

\* the latest call returned a token
Returned == calls > 0 /\ ~panicked

EofSeen == \E i \in DOMAIN tokens : tokens[i].kind = "EOF"

\* the errors the latest call appended
NewErrors == SubSeq(lexer.errors, Len(prev.errors) + 1, Len(lexer.errors))

IsAscii(s) == \A i \in DOMAIN s : s[i] # Wide

\* ------------------------------------------------------------------ claims

\* C1: for every input text, calling next_token repeatedly returns EOF after
\* at most len(input) + 2 calls: in every state either EOF has been returned
\* or the scan is alive and has made fewer calls than that; once EOF has been
\* returned every later call returns EOF again and appends nothing to errors.
C1_EofWithinBound ==
  /\ EofSeen \/ (~panicked /\ calls < ByteLen(lexer.input) + 2)
  /\ \A i \in DOMAIN tokens : \A j \in DOMAIN tokens :
       (i <= j /\ tokens[i].kind = "EOF") => tokens[j].kind = "EOF"
  /\ (Len(tokens) >= 2 /\ tokens[Len(tokens) - 1].kind = "EOF")
       => lexer.errors = prev.errors

\* C2: next_token never fails, whatever the input holds, and a token without
\* a kind always comes with an error recorded by the same call.
C2_NeverFails ==
  /\ ~panicked
  /\ (Returned /\ LastToken.kind = "None") => Len(NewErrors) = 1

\* C3: a call returns a token without a kind exactly when that call appended
\* exactly one error; a call returning a token with a kind (EOF included)
\* leaves errors unchanged; so the number of kind-less tokens returned equals
\* the length of errors.
C3_KindlessIffError ==
  /\ Returned =>
       /\ SubSeq(lexer.errors, 1, Len(prev.errors)) = prev.errors
       /\ (LastToken.kind = "None") <=> (Len(NewErrors) = 1)
       /\ (LastToken.kind # "None") => lexer.errors = prev.errors
  /\ Cardinality({i \in DOMAIN tokens : tokens[i].kind = "None"})
       = Len(lexer.errors)

C3_Witness ==
  /\ Returned
  /\ LastToken.kind = "None"
  /\ Len(lexer.errors) = 2
  /\ \E i \in DOMAIN tokens : tokens[i].kind \notin {"None", "EOF"}

SpanIsValue(tok) ==
  LET sl == Slice(lexer.input, tok.position.column_start,
                  tok.position.column_end)
  IN  sl.ok /\ sl.val = tok.value

\* C4: every returned token whose kind is not EOF has as value exactly the
\* input between its column_start and column_end, and that text is the whole
\* lexeme: of what the call scanned before the token's first character,
\* nothing but skipped whitespace is left out of a token with a kind.
C4_ValueIsLexeme ==
  /\ \A i \in DOMAIN tokens : tokens[i].kind # "EOF" => SpanIsValue(tokens[i])
  /\ (Returned /\ LastToken.kind \notin {"None", "EOF"}) =>
       \A k \in prev.current_position .. LastToken.position.column_start - 1 :
          is_whitespace(CharsNth(lexer.input, k))

\* the words of enum Keyword, lower-cased, with their variants
KeywordTable ==
  { [text |-> <<"b", "r", "e", "a", "k">>, kind |-> "Keyword(Break)"],
    [text |-> <<"c", "a", "s", "e">>, kind |-> "Keyword(Case)"],
    [text |-> <<"c", "h", "a", "n">>, kind |-> "Keyword(Chan)"],
    [text |-> <<"c", "o", "n", "s", "t">>, kind |-> "Keyword(Const)"],
    [text |-> <<"c", "o", "n", "t", "i", "n", "u", "e">>, kind |-> "Keyword(Continue)"],
    [text |-> <<"d", "e", "f", "a", "u", "l", "t">>, kind |-> "Keyword(Default)"],
    [text |-> <<"d", "e", "f", "e", "r">>, kind |-> "Keyword(Defer)"],
    [text |-> <<"e", "l", "s", "e">>, kind |-> "Keyword(Else)"],
    [text |-> <<"f", "a", "l", "l", "t", "h", "r", "o", "u", "g", "h">>, kind |-> "Keyword(Fallthrough)"],
    [text |-> <<"f", "o", "r">>, kind |-> "Keyword(For)"],
    [text |-> <<"f", "u", "n", "c">>, kind |-> "Keyword(Func)"],
    [text |-> <<"g", "o">>, kind |-> "Keyword(Go)"],
    [text |-> <<"g", "o", "t", "o">>, kind |-> "Keyword(Goto)"],
    [text |-> <<"i", "f">>, kind |-> "Keyword(If)"],
    [text |-> <<"i", "m", "p", "o", "r", "t">>, kind |-> "Keyword(Import)"],
    [text |-> <<"i", "n", "t", "e", "r", "f", "a", "c", "e">>, kind |-> "Keyword(Interface)"],
    [text |-> <<"m", "a", "p">>, kind |-> "Keyword(Map)"],
    [text |-> <<"p", "a", "c", "k", "a", "g", "e">>, kind |-> "Keyword(Package)"],
    [text |-> <<"r", "a", "n", "g", "e">>, kind |-> "Keyword(Range)"],
    [text |-> <<"r", "e", "t", "u", "r", "n">>, kind |-> "Keyword(Return)"],
    [text |-> <<"s", "e", "l", "e", "c", "t">>, kind |-> "Keyword(Select)"],
    [text |-> <<"s", "t", "r", "u", "c", "t">>, kind |-> "Keyword(Struct)"],
    [text |-> <<"s", "w", "i", "t", "c", "h">>, kind |-> "Keyword(Switch)"],
    [text |-> <<"t", "y", "p", "e">>, kind |-> "Keyword(Type)"],
    [text |-> <<"v", "a", "r">>, kind |-> "Keyword(Var)"] }

KeywordTexts == {e.text : e \in KeywordTable}
KeywordKind(word) == (CHOOSE e \in KeywordTable : e.text = word).kind

\* the operator and punctuation strings of the classifier table
OperatorTexts == {e.text : e \in FixedTokens} \ KeywordTexts

SpecOps == InitWith(OperatorTexts) /\ [][Next]_vars

\* C5: an operator or punctuation string of the classifier table given alone
\* yields one token of its kind holding the whole input, then EOF, and no
\* error; no shorter prefix is emitted as a token.
C5_OperatorAlone ==
  lexer.input \in OperatorTexts =>
    /\ ~panicked
    /\ lexer.errors = <<>>
    /\ Len(tokens) >= 1 =>
         /\ tokens[1].kind = FixedKind(lexer.input)
         /\ tokens[1].value = lexer.input
         /\ tokens[1].position.column_start = 0
         /\ tokens[1].position.column_end = Len(lexer.input)
    /\ \A i \in DOMAIN tokens : i >= 2 => tokens[i].kind = "EOF"

C5_Witness ==
  /\ lexer.input = <<"&", "^", "=">>
  /\ Kinds(tokens) = <<"AmpersandCaretEqual", "EOF">>

\* words next to the reserved words: their proper prefixes and their
\* extensions by one more character
KeywordSuffixes == {"s", "x", "_", "1"}

NearKeywords ==
  (UNION {{SubSeq(w, 1, n) : n \in 1..(Len(w) - 1)} : w \in KeywordTexts}
     \cup {Append(w, c) : w \in KeywordTexts, c \in KeywordSuffixes})
  \ (KeywordTexts \cup {<<>>})

SpecKw == InitWith(KeywordTexts \cup NearKeywords) /\ [][Next]_vars

\* C6: a reserved word given alone yields Keyword(its variant), never
\* Identifier, then EOF, with no error; a word that only starts with or
\* extends a reserved word yields one Identifier holding the whole word.
C6_KeywordAlone ==
  LET expected == IF lexer.input \in KeywordTexts
                  THEN KeywordKind(lexer.input) ELSE "Identifier"
  IN  (lexer.input \in KeywordTexts \cup NearKeywords) =>
        /\ ~panicked
        /\ lexer.errors = <<>>
        /\ Len(tokens) >= 1 =>
             /\ tokens[1].kind = expected
             /\ tokens[1].value = lexer.input
        /\ \A i \in DOMAIN tokens : i >= 2 => tokens[i].kind = "EOF"

C6_Witness ==
  /\ lexer.input = <<"g", "o", "t", "o">>
  /\ Kinds(tokens) = <<"Keyword(Goto)", "EOF">>

\* ------------------------------------------- words and symbols, no literals
MaxWordsLen == 4

WordsAlphabet == {"a", "b", ".", "+", "(", ")", " "}

SpecWords == InitWith(Texts(WordsAlphabet, MaxWordsLen)) /\ [][Next]_vars

\* next_token on short texts of digits and dots
MaxNumberLen == 4

NumberAlphabet == {"1", "2", ".", " "}

SpecNumbers == InitWith(Texts(NumberAlphabet, MaxNumberLen)) /\ [][Next]_vars

\* the longest n <= 3 such that the first n characters of s are a fixed token
LongestFixed(s) ==
  CHOOSE n \in 1..3 :
    /\ n <= Len(s) /\ SubSeq(s, 1, n) \in OperatorTexts
    /\ \A m \in (n + 1)..3 :
         ~(m <= Len(s) /\ SubSeq(s, 1, m) \in OperatorTexts)

\* the length of the word s starts with
RECURSIVE WordLen(_)
WordLen(s) ==
  IF s = <<>> \/ ~IsIdentChar(Head(s)) THEN 0 ELSE 1 + WordLen(Tail(s))

\* what the text says: the words and the symbols of s in source order, a
\* symbol being the longest fixed token that starts where it starts
RECURSIVE WordsAndSymbols(_)
WordsAndSymbols(s) ==
  IF s = <<>> THEN <<>>
  ELSE IF is_whitespace(Head(s)) THEN WordsAndSymbols(Tail(s))
  ELSE LET n == IF IsIdentChar(Head(s)) THEN WordLen(s) ELSE LongestFixed(s)
           text == SubSeq(s, 1, n)
           kind == IF IsIdentChar(Head(s)) THEN "Identifier"
                   ELSE FixedKind(text)
       IN  <<[kind |-> kind, value |-> text]>>
             \o WordsAndSymbols(SubSeq(s, n + 1, Len(s)))

IsWordsAndSymbols(s) ==
  /\ s # <<>>
  /\ is_ascii_alphabetic(Head(s)) \/ Head(s) = "_"
  /\ \A i \in DOMAIN s :
       IsIdentChar(s[i]) \/ is_symbol(s[i]) \/ is_whitespace(s[i])
  /\ \A i \in DOMAIN s :
       (IsIdentChar(s[i]) /\ (i = 1 \/ ~IsIdentChar(s[i - 1])))
         => /\ ~is_ascii_digit(s[i])
            /\ SubSeq(s, i, i + WordLen(SubSeq(s, i, Len(s))) - 1)
                 \notin KeywordTexts

\* C7: an input made of identifier words separated by whitespace and/or by
\* operator and punctuation tokens yields each word as one Identifier with
\* its full text and each symbol as its own token, in source order, then
\* EOF, with no error.
C7_WordsAndSymbols ==
  IsWordsAndSymbols(lexer.input) =>
    LET expected == WordsAndSymbols(lexer.input)
    IN  /\ ~panicked
        /\ lexer.errors = <<>>
        /\ \A i \in DOMAIN tokens :
             IF i <= Len(expected)
             THEN /\ tokens[i].kind = expected[i].kind
                  /\ tokens[i].value = expected[i].value
             ELSE tokens[i].kind = "EOF"

\* ----------------------------------------------------------------- literals
\* b is the body of a string literal: every backslash takes the character
\* after it along, and no other double quote occurs
RECURSIVE IsStringBody(_)
IsStringBody(b) ==
  IF b = <<>> THEN TRUE
  ELSE IF Head(b) = "\\"
       THEN Len(b) >= 2 /\ IsStringBody(SubSeq(b, 3, Len(b)))
       ELSE Head(b) # "\"" /\ IsStringBody(Tail(b))

\* s is one string literal: an opening quote, a body, the closing quote
IsStringLiteralText(s) ==
  /\ Len(s) >= 2
  /\ Head(s) = "\""
  /\ s[Len(s)] = "\""
  /\ IsStringBody(SubSeq(s, 2, Len(s) - 1))

\* C8: a string literal, whatever its body holds, yields exactly one
\* StringLiteral token spanning the opening to the closing quote, and no
\* error.
C8_StringLiteralToken ==
  IsStringLiteralText(lexer.input) =>
    /\ ~panicked
    /\ lexer.errors = <<>>
    /\ Len(tokens) >= 1 =>
         /\ tokens[1].kind = "StringLiteral"
         /\ tokens[1].value = lexer.input
         /\ tokens[1].position.column_start = 0
         /\ tokens[1].position.column_end = ByteLen(lexer.input)
    /\ \A i \in DOMAIN tokens : i >= 2 => tokens[i].kind = "EOF"

\* b never closes the string: it holds no double quote but escaped ones
RECURSIVE IsOpenStringBody(_)
IsOpenStringBody(b) ==
  IF b = <<>> THEN TRUE
  ELSE IF Head(b) = "\\"
       THEN Len(b) < 2 \/ IsOpenStringBody(SubSeq(b, 3, Len(b)))
       ELSE Head(b) # "\"" /\ IsOpenStringBody(Tail(b))

\* s opens a string literal that is still open where the input ends
IsOpenStringText(s) ==
  s # <<>> /\ Head(s) = "\"" /\ IsOpenStringBody(Tail(s))

\* C9: when the input ends inside an open string literal, exactly one error
\* is recorded, of kind UnterminatedString, one token without a kind is
\* returned for it, string mode is left, and the next call returns EOF.
C9_UnterminatedString ==
  (IsOpenStringText(lexer.input) /\ calls >= 1) =>
    /\ ~panicked
    /\ Len(lexer.errors) = 1
    /\ lexer.errors[1].kind = "UnterminatedString"
    /\ ~lexer.is_parsing_string
    /\ tokens[1].kind = "None"
    /\ \A i \in DOMAIN tokens : i >= 2 => tokens[i].kind = "EOF"

\* the first index from i on at which s holds a whitespace or a single quote
RECURSIVE RuneStop(_, _)
RuneStop(s, i) ==
  IF i > Len(s) \/ is_whitespace(s[i]) \/ s[i] = "'" THEN i
  ELSE RuneStop(s, i + 1)

\* s opens a rune literal that a whitespace or the end of the input cuts off
\* before any closing quote (no backslash hides the whitespace)
IsCutRune(s) ==
  /\ s # <<>>
  /\ Head(s) = "'"
  /\ LET stop == RuneStop(s, 2)
     IN  /\ stop > Len(s) \/ is_whitespace(s[stop])
         /\ \A i \in 2..(stop - 1) : s[i] # "\\"

\* kinds and values of the first n tokens of a scan that starts in lx
RECURSIVE Scan(_, _)
ScanOn(r, n) ==
  IF r.st = "panic" THEN <<>>
  ELSE <<[kind |-> r.tok.kind, value |-> r.tok.value]>> \o Scan(r.lx, n - 1)

Scan(lx, n) == IF n = 0 THEN <<>> ELSE ScanOn(next_token(lx), n)

\* C10: a rune literal cut off by a whitespace or by the end of the input
\* yields exactly one UnterminatedRune error and one token without a kind,
\* rune mode is left, and the rest of the input is scanned as it would be on
\* its own.
C10_UnterminatedRune ==
  (IsCutRune(lexer.input) /\ calls >= 1) =>
    LET stop == RuneStop(lexer.input, 2)
        rest == SubSeq(lexer.input, stop, Len(lexer.input))
    IN  /\ ~panicked
        /\ tokens[1].kind = "None"
        /\ lexer.errors # <<>> /\ lexer.errors[1].kind = "UnterminatedRune"
        /\ calls = 1 =>
             /\ Len(lexer.errors) = 1
             /\ ~lexer.is_parsing_rune /\ ~lexer.is_parsing_string
        /\ [i \in 1..(Len(tokens) - 1) |->
              [kind |-> tokens[i + 1].kind, value |-> tokens[i + 1].value]]
             = Scan(Lexer_new(rest), Len(tokens) - 1)

\* ------------------------------------------------- newline inside a string
\* the first index from i on at which s holds a newline or a double quote
RECURSIVE StringStop(_, _)
StringStop(s, i) ==
  IF i > Len(s) \/ s[i] = "\n" \/ s[i] = "\"" THEN i
  ELSE StringStop(s, i + 1)

\* s opens a string literal in which a newline comes before any closing
\* quote (no backslash hides the newline)
IsBrokenString(s) ==
  /\ s # <<>>
  /\ Head(s) = "\""
  /\ LET stop == StringStop(s, 2)
     IN  /\ stop <= Len(s) /\ s[stop] = "\n"
         /\ \A i \in 2..(stop - 1) : s[i] # "\\"

\* C11: a newline inside an open string literal ends the literal there: the
\* call records one UnterminatedString error, returns a token without a kind
\* and leaves string mode, and the text after the newline is scanned as it
\* would be on its own.
C11_NewlineEndsString ==
  (IsBrokenString(lexer.input) /\ calls >= 1) =>
    LET stop == StringStop(lexer.input, 2)
        rest == SubSeq(lexer.input, stop + 1, Len(lexer.input))
    IN  /\ ~panicked
        /\ tokens[1].kind = "None"
        /\ lexer.errors # <<>> /\ lexer.errors[1].kind = "UnterminatedString"
        /\ calls = 1 =>
             /\ Len(lexer.errors) = 1
             /\ ~lexer.is_parsing_string
             /\ lexer.current_position = stop
        /\ [i \in 1..(Len(tokens) - 1) |->
              [kind |-> tokens[i + 1].kind, value |-> tokens[i + 1].value]]
             = Scan(Lexer_new(rest), Len(tokens) - 1)

\* ---------------------------------------------------------------- progress
\* C12: a call that records an error moves the scan offset forward by at
\* least one character.
C12_ErrorAdvances ==
  (Returned /\ Len(lexer.errors) > Len(prev.errors)) =>
    lexer.current_position > prev.current_position

\* ------------------------------------------------------------ error list
\* C13: across next_token calls the error list only grows at its end, and
\* its entries are in scan order: their column_start never decreases.
C13_ErrorsAppendOnly ==
  /\ Len(prev.errors) <= Len(lexer.errors)
  /\ SubSeq(lexer.errors, 1, Len(prev.errors)) = prev.errors
  /\ \A i \in DOMAIN lexer.errors : \A j \in DOMAIN lexer.errors :
       i <= j => lexer.errors[i].position.column_start
                   <= lexer.errors[j].position.column_start

\* two errors at different offsets have been recorded by different calls
C13_Witness ==
  /\ Returned
  /\ Len(lexer.errors) = 2
  /\ Len(prev.errors) = 1
  /\ lexer.errors[1].position.column_start
       < lexer.errors[2].position.column_start

\* --------------------------------------------------------------- lookahead
\* the tokens of the next n next_token calls on lx (cut short by a failure)
RECURSIVE ScanTokens(_, _)
ScanTokensOn(r, n) ==
  IF r.st = "panic" THEN <<>> ELSE <<r.tok>> \o ScanTokens(r.lx, n - 1)

ScanTokens(lx, n) == IF n = 0 THEN <<>> ELSE ScanTokensOn(next_token(lx), n)

\* enough calls to scan lx to its end and see EOF
ToEnd(lx) == ByteLen(lx.input) + 2

\* C14: peek_tokens(n) returns the tokens of the next n next_token calls and
\* puts current_position, anchor and both literal flags back, so the tokens
\* of the calls that follow are those of a scan that was never peeked.
C14_PeekIsLookahead ==
  (ret.op = "peek_tokens" /\ ~panicked) =>
    /\ ret.toks = ScanTokens(prev, ret.n)
    /\ Len(ret.toks) = ret.n
    /\ lexer.current_position = prev.current_position
    /\ lexer.anchor = prev.anchor
    /\ lexer.is_parsing_string = prev.is_parsing_string
    /\ lexer.is_parsing_rune = prev.is_parsing_rune
    /\ ScanTokens(lexer, ToEnd(lexer)) = ScanTokens(prev, ToEnd(prev))

\* two tokens were peeked in the middle of a scan, the first not EOF
C14_Witness ==
  /\ ret.op = "peek_tokens" /\ ~panicked
  /\ ret.n = 2
  /\ Len(tokens) = 1
  /\ ret.toks[1].kind = "StringLiteral"
  /\ ret.toks[2].kind = "EOF"

\* C15: peek_tokens leaves the error list and the pending newline flag as
\* they were, so an error is in the list once however often its lexeme was
\* looked at before it was scanned.
C15_PeekKeepsErrorsAndNewline ==
  /\ (ret.op = "peek_tokens" /\ ~panicked) =>
       /\ lexer.errors = prev.errors
       /\ lexer.newline_before_current_token
            = prev.newline_before_current_token
  /\ \A i \in DOMAIN lexer.errors : \A j \in DOMAIN lexer.errors :
       lexer.errors[i] = lexer.errors[j] => i = j

\* ------------------------------------------------------------ newline flag
\* the offsets between the token returned before the latest one and the
\* latest one
LastGap ==
  tokens[Len(tokens) - 1].position.column_end
    .. (LastToken.position.column_start - 1)

\* C16: the newline query answers TRUE exactly when a newline lies between
\* the latest token and the one before it (here: in a gap of whitespace
\* only), whatever was crossed before earlier tokens; it clears the flag, and
\* asked again for the same token it answers FALSE.
C16_NewlineBeforeLatestToken ==
  (ret.op = "had_newline_before_current_token" /\ Len(tokens) >= 2
     /\ \A k \in LastGap : is_whitespace(CharsNth(lexer.input, k))) =>
    /\ ~lexer.newline_before_current_token
    /\ asked = 1 =>
         (ret.val <=> \E k \in LastGap : CharsNth(lexer.input, k) = "\n")
    /\ asked >= 2 => ~ret.val

\* -------------------------------------------------------------- classifier
\* v is one or more digits
IsDigits(v) == v # <<>> /\ \A i \in DOMAIN v : v[i] \in AsciiDigits

\* v is digits, one dot, digits
IsFloatText(v) ==
  \E k \in 2..(Len(v) - 1) :
    /\ v[k] = "."
    /\ \A i \in DOMAIN v : i # k => v[i] \in AsciiDigits

\* in b every backslash is followed by a character, which it takes along
RECURSIVE IsEscapedBody(_)
IsEscapedBody(b) ==
  IF b = <<>> THEN TRUE
  ELSE IF Head(b) = "\\"
       THEN Len(b) >= 2 /\ IsEscapedBody(Tail(Tail(b)))
       ELSE IsEscapedBody(Tail(b))

IsQuotedString(v) ==
  /\ Len(v) >= 2
  /\ v[1] = "\"" /\ v[Len(v)] = "\""
  /\ IsEscapedBody(SubSeq(v, 2, Len(v) - 1))

\* a single-quoted body of one character or of one escape pair
IsQuotedRune(v) ==
  /\ Len(v) \in {3, 4}
  /\ v[1] = "'" /\ v[Len(v)] = "'"
  /\ (Len(v) = 3) <=> (v[2] # "\\")

\* the malformed neighbours of the literals: a number with a dot at an end
\* or with two dots, digits followed by letters, a word holding a symbol
IsMalformedNeighbour(v) ==
  \/ /\ \A i \in DOMAIN v : v[i] \in AsciiDigits \cup {"."}
     /\ \E i \in DOMAIN v : v[i] \in AsciiDigits
     /\ v[1] = "." \/ v[Len(v)] = "." \/ Count(v, ".") >= 2
  \/ /\ v # <<>> /\ v[1] \in AsciiDigits
     /\ \A i \in DOMAIN v : v[i] \in AsciiDigits \cup AsciiLetters
     /\ \E i \in DOMAIN v : v[i] \in AsciiLetters
  \/ /\ v # <<>> /\ v[1] \in AsciiLetters \cup {"_"}
     /\ \A i \in DOMAIN v :
          v[i] \in AsciiDigits \cup AsciiLetters \cup {"_"} \/ is_symbol(v[i])
     /\ \E i \in DOMAIN v : is_symbol(v[i])

\* C17: from_str gives each literal kind to exactly the well-formed literals
\* of that kind, and no kind to their malformed neighbours.
C17_LiteralsClassified ==
  ret.op = "from_str" =>
    /\ (ret.val = "IntegerLiteral") <=> IsDigits(ret.toks)
    /\ (ret.val = "FloatLiteral") <=> IsFloatText(ret.toks)
    /\ (ret.val = "StringLiteral") <=> IsQuotedString(ret.toks)
    /\ (ret.val = "RuneLiteral") <=> IsQuotedRune(ret.toks)
    /\ IsMalformedNeighbour(ret.toks) => ret.val = "None"

\* the float 1.1 has been classified
C17_Witness ==
  /\ ret.op = "from_str"
  /\ ret.toks = <<"1", ".", "1">>
  /\ ret.val = "FloatLiteral"

\* the texts by which a prefix is extended
MaxExtension == 2
Extensions == Texts(ClassifyAlphabet, MaxExtension)

\* a text that from_str takes for a keyword, an operator or punctuation, an
\* identifier or a number literal starts with p
IsPrefixOfToken(p) ==
  \E ext \in Extensions :
    from_str(p \o ext) \notin {"None", "StringLiteral", "RuneLiteral"}

\* C18: could_match is exact: it is TRUE of a non-empty text exactly when
\* some keyword, operator, punctuation, identifier or number literal starts
\* with that text.
C18_CouldMatchExact ==
  (ret.op = "could_match" /\ ret.toks # <<>>) =>
    (ret.val <=> IsPrefixOfToken(ret.toks))

\* ---------------------------------------------------------------------- C19
\* a turn of the Program-level loop has just run
IterationStep == parser'.iterations = parser.iterations + 1

\* the turn took the Err arm: error pushed, synchronize(), forced advance
FailedStep == parser'.failed = parser.failed + 1

\* synchronize() left the parser at ';' (which the forced advance then took)
\* or at EOF (and no advance was forced)
StoppedAtSemicolonOrEOF ==
  \/ /\ parser'.forced = parser.forced + 1
     /\ parser'.current_token.kind = "Semicolon"
  \/ /\ parser'.forced = parser.forced
     /\ parser'.peek_token.kind = "EOF"

\* C19: parse() terminates for every input text.  Every turn of the
\* Program-level loop, with a successful statement or with a failed one
\* followed by synchronize() and the forced advance, consumes at least one
\* token, and a failed turn leaves synchronize() at ';' or at EOF; the
\* tokens consumed are never more than the characters of the text, so the
\* turns are never more than that either (a text the tokenizer fails on
\* ends parse() with that failure).
C19_ParseTerminates ==
  [][IterationStep /\ ~panicked' =>
       /\ parser'.consumed > parser.consumed
       /\ (FailedStep => StoppedAtSemicolonOrEOF)
       /\ parser'.iterations <= parser'.consumed
       /\ parser'.consumed <= Len(lexer'.input)]_vars

\* parse() returned after a turn that failed and forced an advance and a
\* turn that gave a statement
C19_Witness ==
  /\ parser.pc = "idle"
  /\ Len(parser.returns) = 1
  /\ parser.returns[1].ok
  /\ parser.forced >= 1
  /\ Len(parser.statements) >= 1

\* ---------------------------------------------------------------------- C20
\* the i-th parse() call on the Parser
ParseCall(i) == parser.returns[i]

\* C20: parse() returns Err, with the stored error list, exactly when
\* parser.errors was not empty when parse() was entered.  The first call on
\* a freshly constructed Parser therefore returns Ok(Program) whatever it
\* recorded, and the second call returns Err exactly when the first call
\* recorded at least one error.
C20_ErrOnlyForStoredErrors ==
  \A i \in 1..Len(parser.returns) :
    /\ ~ParseCall(i).ok <=> ParseCall(i).entered > 0
    /\ ~ParseCall(i).ok =>
         /\ ParseCall(i).val = parser.errors
         /\ ParseCall(i).left = ParseCall(i).entered
    /\ i = 1 => ParseCall(1).ok
    /\ i = 2 => (~ParseCall(2).ok <=> ParseCall(1).left > 0)

\* the first parse() recorded errors and returned Ok, the second returned Err
C20_Witness ==
  /\ Len(parser.returns) = 2
  /\ ParseCall(1).ok
  /\ ParseCall(1).left > 0
  /\ ~ParseCall(2).ok

\* ---------------------------------------------------------------------- C21
IsPrefix(s, t) == Len(s) <= Len(t) /\ SubSeq(t, 1, Len(s)) = s

\* a Parser newly set on the rest of the text, from the start of peek_token
RestOfText ==
  [Lexer_new(lexer.input) EXCEPT
     !.current_position = parser.peek_token.position.column_start,
     !.anchor = parser.peek_token.position.column_start]

FreshOnRest == Parser_new_on(next_token(RestOfText))

\* the turn `here` of the loop gives the statement the turn `fresh` of a new
\* Parser gives, when that one gives a statement
AsFresh(here, fresh) ==
  (fresh.failed = 0 /\ ~fresh.ps.panicked) =>
    (here.failed = 0 /\ ~here.ps.panicked /\ here.pushed = fresh.pushed)

ParsesNormally == AsFresh(parse_iteration(Self), parse_iteration(FreshOnRest))

\* the tokens of the whole text
RECURSIVE TokensFrom(_)
TokensOn(r) ==
  IF r.st = "panic" THEN <<>>
  ELSE IF r.tok.kind = "EOF" THEN <<r.tok>>
  ELSE <<r.tok>> \o TokensFrom(r.lx)

TokensFrom(lx) == The({TokensOn(r) : r \in {next_token(lx)}})

SourceTokens == TokensFrom(Lexer_new(lexer.input))

\* where the ';' tokens among toks at or after column c start
SemicolonsFrom(toks, c) ==
  { toks[i].position.column_start : i \in
      { j \in 1..Len(toks) : /\ toks[j].kind = "Semicolon"
                             /\ toks[j].position.column_start >= c } }

\* after a failed turn whose error is at column c the parser has just taken
\* the first ';' that follows, or is at EOF when none follows
RecoveredAfter(c) ==
  \A semicolons \in {SemicolonsFrom(SourceTokens, c)} :
    IF semicolons = {} THEN parser'.peek_token.kind = "EOF"
    ELSE /\ parser'.current_token.kind = "Semicolon"
         /\ \A d \in semicolons :
              parser'.current_token.position.column_start <= d

\* C21: a syntax error in a top-level statement is recovered locally.  The
\* statements parsed before it stay in Program.statements, in order; the
\* errors recorded before stay and every failed statement adds its error;
\* the parser then stands right after the next ';' that follows the error,
\* and a statement that starts there (any turn of the loop after a failed
\* one) is parsed as a new Parser would parse it there, and is included.
C21_LocalRecovery ==
  [][IterationStep /\ ~panicked' =>
       /\ IsPrefix(parser.statements, parser'.statements)
       /\ IsPrefix(parser.errors, parser'.errors)
       /\ (FailedStep =>
             /\ Len(parser'.errors) > Len(parser.errors)
             /\ RecoveredAfter(parser'.errors[Len(parser'.errors)]
                                 .position.column_start))
       /\ (parser.failed >= 1 => ParsesNormally)
       /\ (parser.failed >= 1 /\ ~FailedStep =>
             Len(parser'.statements) = Len(parser.statements) + 1)]_vars

\* a statement, then two failing statements each ended by ';', then a
\* statement that was parsed and returned with the first
C21_Witness ==
  /\ parser.pc = "idle"
  /\ Len(parser.returns) = 1
  /\ parser.forced >= 2
  /\ Len(parser.errors) >= 2
  /\ Len(ParseCall(1).val) >= 2
  /\ ParseCall(1).val[1].position_start.column_start = 0
  /\ ParseCall(1).val[2].position_start.column_start >= 4

\* the LexerErrors the tokenizer recorded after Parser::new returned
ErrorsSinceNew ==
  SubSeq(lexer.errors, Len(Parser_new(lexer.input).lexer.errors) + 1,
         Len(lexer.errors))

\* C22: when parse() has returned, every LexerError the tokenizer recorded
\* while it ran is in the parser's error list as a wrapped LexerError (here:
\* an entry of kind LexerError at the position of the lexical error), the
\* errors of kind-less tokens skipped by synchronize() included.
C22_LexerErrorsReported ==
  (parser.pc = "idle" /\ parser.returns # <<>> /\ ~panicked) =>
    \A i \in DOMAIN ErrorsSinceNew :
      \E j \in DOMAIN parser.errors :
        /\ parser.errors[j].kind = "LexerError"
        /\ parser.errors[j].position = ErrorsSinceNew[i].position

\* two identifiers follow each other in toks with no newline between them:
\* two expression statements on one line with no separator
SameLinePair(toks) ==
  \E i \in 1..(Len(toks) - 1) :
    /\ toks[i].kind = "Identifier"
    /\ toks[i + 1].kind = "Identifier"
    /\ \A k \in toks[i].position.column_end
                  .. (toks[i + 1].position.column_start - 1) :
         CharsNth(lexer.input, k) # "\n"

\* C23: a statement with no ';' after it is accepted only when a newline lies
\* between its last token and the next token, or the next token is EOF: when
\* parse() has returned on a text in which two statements stand on one line
\* with no separator, wherever that line is, it has recorded an error.
C23_SameLineStatementsRejected ==
  (parser.pc = "idle" /\ parser.returns # <<>> /\ ~panicked
     /\ \E toks \in {SourceTokens} : SameLinePair(toks)) =>
    parser.errors # <<>>

\* the maximal runs of the letter a in s: the identifiers written in it
RECURSIVE IdentifierRuns(_)
IdentifierRuns(s) ==
  IF s = <<>> THEN <<>>
  ELSE IF Head(s) # "a" THEN IdentifierRuns(Tail(s))
  ELSE LET k == CHOOSE n \in 1..Len(s) :
                  /\ \A i \in 1..n : s[i] = "a"
                  /\ (n < Len(s) => s[n + 1] # "a")
       IN  <<SubSeq(s, 1, k)>> \o IdentifierRuns(SubSeq(s, k + 1, Len(s)))

\* s is n >= 1 identifiers, each on its own line, with newlines only
OnePerLine(s) ==
  /\ s # <<>> /\ s[1] = "a" /\ s[Len(s)] = "a"
  /\ \A i \in DOMAIN s : s[i] \in {"a", "\n"}
  /\ \A i \in 1..(Len(s) - 1) : ~(s[i] = "\n" /\ s[i + 1] = "\n")

\* s is n >= 1 identifiers, each terminated by ';'
EachTerminated(s) ==
  /\ s # <<>> /\ s[1] = "a" /\ s[Len(s)] = ";"
  /\ \A i \in DOMAIN s : s[i] \in {"a", ";"}
  /\ \A i \in 1..(Len(s) - 1) : ~(s[i] = ";" /\ s[i + 1] = ";")

\* the statements are the expression statements of the identifiers names
ExpressionStatementsOf(statements, names) ==
  /\ Len(statements) = Len(names)
  /\ \A i \in DOMAIN names :
       /\ statements[i].kind.tag = "Expression"
       /\ statements[i].kind.expression.kind
            = [tag |-> "Identifier", value |-> names[i]]

\* C24: n >= 1 expression statements, each on its own line with newlines only
\* between them, or each terminated by ';', parse to exactly those n
\* expression statements in order, and no parser error is recorded.
C24_OneStatementPerLine ==
  (parser.pc = "idle" /\ Len(parser.returns) = 1
     /\ (OnePerLine(lexer.input) \/ EachTerminated(lexer.input))) =>
    /\ ~panicked
    /\ ParseCall(1).ok
    /\ parser.errors = <<>>
    /\ ExpressionStatementsOf(ParseCall(1).val, IdentifierRuns(lexer.input))

\* three statements on three lines have been parsed
C24_Witness ==
  /\ parser.pc = "idle"
  /\ Len(parser.returns) = 1
  /\ OnePerLine(lexer.input)
  /\ Len(IdentifierRuns(lexer.input)) = 3
  /\ Len(ParseCall(1).val) = 3

\* the tokens of a function head stand at index i of toks and no '}' token
\* follows them: the end of the text is reached inside the function's body
UnclosedAt(toks, i) ==
  /\ i + 4 <= Len(toks)
  /\ toks[i].kind = Func
  /\ Kinds(SubSeq(toks, i, i + 4))
       = <<Func, "Identifier", "LeftParen", "RightParen", "LeftBrace">>
  /\ \A k \in (i + 5)..Len(toks) : toks[k].kind # "RightBrace"

\* the function heads of toks that are not closed
Unclosed(toks) == {i \in DOMAIN toks : UnclosedAt(toks, i)}

\* C25: when the end of the text is reached inside a function body before
\* its '}', the declaration fails with a ParserError: parse() returns
\* normally, its error list holds an error, and the statements it returns
\* hold no FunctionDeclaration for that function.
C25_UnclosedFunctionFails ==
  (parser.pc = "idle" /\ Len(parser.returns) = 1 /\ ~panicked) =>
    \A toks \in {SourceTokens} :
      \A i \in Unclosed(toks) :
        /\ ParseCall(1).ok
        /\ parser.errors # <<>>
        /\ \A j \in DOMAIN ParseCall(1).val :
             ~ /\ ParseCall(1).val[j].kind.tag = "FunctionDeclaration"
               /\ ParseCall(1).val[j].position_start = toks[i].position

\* a function whose body holds one statement met the end of the text: the
\* one error says so, and the statement of the body was not returned
C25_Witness ==
  /\ parser.pc = "idle"
  /\ Len(parser.returns) = 1
  /\ Unclosed(SourceTokens) = {1}
  /\ Len(lexer.input) > Len(FuncHead)
  /\ ParseCall(1).val = <<>>
  /\ Len(parser.errors) = 1
  /\ parser.errors[1].text = <<"Expected '}' to close function body">>
  /\ parser.errors[1].position.column_start = Len(lexer.input)

\* the text 'package <name>' ended by nothing, a newline or ';'
PackageKeyword == <<"p", "a", "c", "k", "a", "g", "e", " ">>
PackageTexts(name) ==
  {PackageKeyword \o name \o end : end \in {<<>>, <<"\n">>, <<";">>}}

\* what the text holds after the keyword it starts with
AfterKeyword(keyword) ==
  IF IsPrefix(keyword, lexer.input)
  THEN SubSeq(lexer.input, Len(keyword) + 1, Len(lexer.input))
  ELSE <<>>

\* the package keywords among toks that no identifier follows
PackageUnnamed(toks) ==
  {i \in 1..(Len(toks) - 1) :
     toks[i].kind = Package /\ toks[i + 1].kind # "Identifier"}

\* C26: 'package <name>' ended by a newline, ';' or the end of the text parses
\* to the one statement PackageDeclaration(<name>) with no error; a package
\* keyword that no Identifier follows gives no PackageDeclaration, and an
\* UnexpectedToken error is recorded.
C26_PackageDeclaration ==
  (parser.pc = "idle" /\ Len(parser.returns) = 1) =>
    /\ \A names \in {IdentifierRuns(AfterKeyword(PackageKeyword))} :
         (names # <<>> /\ lexer.input \in PackageTexts(names[1])) =>
           /\ ~panicked
           /\ ParseCall(1).ok
           /\ parser.errors = <<>>
           /\ Len(ParseCall(1).val) = 1
           /\ ParseCall(1).val[1].kind
                = [tag |-> "PackageDeclaration", name |-> names[1]]
    /\ \A toks \in {SourceTokens} :
         \A i \in PackageUnnamed(toks) :
           /\ \E e \in DOMAIN parser.errors :
                parser.errors[e].kind = "UnexpectedToken"
           /\ \A j \in DOMAIN ParseCall(1).val :
                ~ /\ ParseCall(1).val[j].kind.tag = "PackageDeclaration"
                  /\ ParseCall(1).val[j].position_start = toks[i].position

\* 'package aa' ended by a newline has been parsed to its declaration
C26_Witness ==
  /\ parser.pc = "idle"
  /\ Len(parser.returns) = 1
  /\ lexer.input = PackageKeyword \o <<"a", "a", "\n">>
  /\ Len(ParseCall(1).val) = 1
  /\ ParseCall(1).val[1].kind
       = [tag |-> "PackageDeclaration", name |-> <<"a", "a">>]

ImportKeyword == <<"i", "m", "p", "o", "r", "t", " ">>

\* s is a string literal: a quote, a body with no quote, backslash or
\* newline, a quote
IsQuoted(s) ==
  /\ Len(s) >= 2 /\ s[1] = "\"" /\ s[Len(s)] = "\""
  /\ \A k \in 2..(Len(s) - 1) : s[k] \notin {"\"", "\\", "\n"}

\* C27: 'import "<path>"' parses to the one statement ImportDeclaration whose
\* path is <path>, the text between the quotes, with no error.
C27_ImportDeclaration ==
  (parser.pc = "idle" /\ Len(parser.returns) = 1) =>
    \A literal \in {AfterKeyword(ImportKeyword)} :
      IsQuoted(literal) =>
        /\ ~panicked
        /\ ParseCall(1).ok
        /\ parser.errors = <<>>
        /\ Len(ParseCall(1).val) = 1
        /\ ParseCall(1).val[1].kind
             = [tag |-> "ImportDeclaration",
                path |-> SubSeq(literal, 2, Len(literal) - 1)]

\* s is k >= 1 identifiers, each followed by a newline
LinesOfBody(s) ==
  /\ s # <<>> /\ s[1] = "a" /\ s[Len(s)] = "\n"
  /\ \A i \in DOMAIN s : s[i] \in {"a", "\n"}
  /\ \A i \in 1..(Len(s) - 1) : ~(s[i] = "\n" /\ s[i + 1] = "\n")

\* what stands between the function head the text starts with and the '}'
\* it ends with
BodyText ==
  IF AfterKeyword(FuncHead) # <<>> /\ lexer.input[Len(lexer.input)] = "}"
  THEN SubSeq(lexer.input, Len(FuncHead) + 1, Len(lexer.input) - 1)
  ELSE <<>>

\* C28: 'func a() {', k statements each on its own line, and '}' on a line of
\* its own parse to the one statement FunctionDeclaration with that name, no
\* parameters and exactly the k statements as its body, in order, with no
\* error; the statements of the body are not statements of the program.
C28_FunctionDeclaration ==
  (parser.pc = "idle" /\ Len(parser.returns) = 1) =>
    \A body \in {BodyText} :
      LinesOfBody(body) =>
        /\ ~panicked
        /\ ParseCall(1).ok
        /\ parser.errors = <<>>
        /\ Len(ParseCall(1).val) = 1
        /\ ParseCall(1).val[1].kind.tag = "FunctionDeclaration"
        /\ ParseCall(1).val[1].kind.name = <<"a">>
        /\ ParseCall(1).val[1].kind.parameters = <<>>
        /\ ExpressionStatementsOf(ParseCall(1).val[1].kind.body,
                                  IdentifierRuns(body))

\* a function of two statements has been parsed
C28_Witness ==
  /\ parser.pc = "idle"
  /\ Len(parser.returns) = 1
  /\ LinesOfBody(BodyText)
  /\ Len(IdentifierRuns(BodyText)) = 2
  /\ Len(ParseCall(1).val) = 1
  /\ Len(ParseCall(1).val[1].kind.body) = 2

\* an expression without its positions
RECURSIVE Shape(_)
Shape(e) ==
  IF e.kind.tag = "FieldAccess"
  THEN [tag |-> "FieldAccess", object |-> Shape(e.kind.object),
        field |-> e.kind.field]
  ELSE IF e.kind.tag = "FunctionCall"
  THEN [tag |-> "FunctionCall", name |-> Shape(e.kind.name),
        arguments |-> [i \in DOMAIN e.kind.arguments |->
                         Shape(e.kind.arguments[i])]]
  ELSE e.kind

\* the expression of one identifier or integer token
Leaf(tok) == [tag |-> tok.kind, value |-> tok.value]

\* toks are the arguments of a call: identifiers and integers with commas
\* between them
IsArguments(toks) ==
  \/ toks = <<>>
  \/ /\ Len(toks) % 2 = 1
     /\ \A i \in DOMAIN toks :
          IF i % 2 = 1 THEN toks[i].kind \in {"Identifier", "IntegerLiteral"}
          ELSE toks[i].kind = "Comma"

\* the index of the first ')' of toks, 0 when there is none
FirstRightParen(toks) ==
  IF \E k \in DOMAIN toks : toks[k].kind = "RightParen"
  THEN CHOOSE k \in DOMAIN toks :
         /\ toks[k].kind = "RightParen"
         /\ \A j \in 1..(k - 1) : toks[j].kind # "RightParen"
  ELSE 0

\* toks, which end with EOF, are trailers: '.field' and '(arguments)'
RECURSIVE IsTrailers(_)
IsTrailers(toks) ==
  IF toks[1].kind = "EOF" THEN TRUE
  ELSE IF toks[1].kind = "Dot"
  THEN /\ toks[2].kind = "Identifier"
       /\ IsTrailers(SubSeq(toks, 3, Len(toks)))
  ELSE IF toks[1].kind = "LeftParen"
  THEN /\ FirstRightParen(toks) # 0
       /\ IsArguments(SubSeq(toks, 2, FirstRightParen(toks) - 1))
       /\ IsTrailers(SubSeq(toks, FirstRightParen(toks) + 1, Len(toks)))
  ELSE FALSE

\* the chain the claim describes: each trailer of toks wraps the expression
\* built so far
RECURSIVE Chained(_, _)
Chained(e, toks) ==
  IF toks[1].kind = "EOF" THEN e
  ELSE IF toks[1].kind = "Dot"
  THEN Chained([tag |-> "FieldAccess", object |-> e, field |-> toks[2].value],
               SubSeq(toks, 3, Len(toks)))
  ELSE Chained([tag |-> "FunctionCall", name |-> e,
                arguments |->
                  [i \in 1..((FirstRightParen(toks) - 1) \div 2) |->
                     Leaf(toks[2 * i])]],
               SubSeq(toks, FirstRightParen(toks) + 1, Len(toks)))

\* C29: the trailers after an identifier chain to the left, to any depth:
\* each '.field' makes the expression built so far the object of a
\* FieldAccess, each '(arguments)' makes it the callee of a FunctionCall with
\* the arguments in order.
C29_TrailersChainLeft ==
  (parser.pc = "idle" /\ Len(parser.returns) = 1) =>
    \A toks \in {SourceTokens} :
      (toks[1].kind = "Identifier" /\ IsTrailers(Tail(toks))) =>
        /\ ParseCall(1).ok
        /\ parser.errors = <<>>
        /\ Len(ParseCall(1).val) = 1
        /\ ParseCall(1).val[1].kind.tag = "Expression"
        /\ Shape(ParseCall(1).val[1].kind.expression)
             = Chained(Leaf(toks[1]), Tail(toks))

\* a.b.c(d)(e,1) has been parsed: two field accesses, then two calls
C29_Witness ==
  /\ parser.pc = "idle"
  /\ Len(parser.returns) = 1
  /\ lexer.input = <<"a", ".", "b", ".", "c", "(", "d", ")",
                     "(", "e", ",", "1", ")">>
  /\ Len(ParseCall(1).val) = 1
  /\ Shape(ParseCall(1).val[1].kind.expression)
       = [tag |-> "FunctionCall",
          name |->
            [tag |-> "FunctionCall",
             name |->
               [tag |-> "FieldAccess",
                object |->
                  [tag |-> "FieldAccess",
                   object |-> [tag |-> "Identifier", value |-> <<"a">>],
                   field |-> <<"b">>],
                field |-> <<"c">>],
             arguments |->
               <<[tag |-> "Identifier", value |-> <<"d">>]>>],
          arguments |->
            <<[tag |-> "Identifier", value |-> <<"e">>],
              [tag |-> "IntegerLiteral", value |-> <<"1">>]>>]

\* the kinds a direct caller asks expect_token for
ExpectedKinds == {"Identifier", "Semicolon", "RightParen"}

\* expect_token(kind) called on the parser as it stands: a mismatch appends
\* its one UnexpectedToken error and leaves the peek token at ';' or EOF
MismatchRecordedOnce(kind) ==
  \A r \in {expect_token(Self, kind)} :
    ~r.ok =>
      /\ r.val.kind = "UnexpectedToken"
      /\ r.ps.errors = Append(parser.errors, r.val)
      /\ r.ps.panicked \/ r.ps.peek_token.kind \in {"Semicolon", "EOF"}

\* C30: a mismatch of expect_token(kind), in a direct call or inside parse(),
\* adds exactly one UnexpectedToken entry to parser.errors, so the list never
\* holds two entries for the same mismatch, and when expect_token returns the
\* error the peek token is ';' or EOF.
C30_OneErrorPerMismatch ==
  ~panicked =>
    /\ \A i \in DOMAIN parser.errors : \A j \in DOMAIN parser.errors :
         parser.errors[i] = parser.errors[j] => i = j
    /\ \A kind \in ExpectedKinds : MismatchRecordedOnce(kind)

\* the i-th token a scan of the text gives, its EOF token from then on
NthOf(toks, i) == toks[IF i <= Len(toks) THEN i ELSE Len(toks)]

\* C31: the parser keeps one token of lookahead.  A new Parser has
\* current_token BeforeStart, peek_token the first token of the text and no
\* errors; after n advance() calls current_token is the n-th token of the
\* tokenizer and peek_token the one after it, so the calls return the
\* tokenizer's tokens in order; once current_token is EOF a further call
\* leaves both tokens EOF and does not ask the tokenizer.
C31_OneTokenLookahead ==
  ~panicked =>
    \A toks \in {SourceTokens} :
      /\ parser.errors = <<>>
      /\ Len(tokens) = parser.advances
      /\ parser.current_token
           = IF tokens = <<>> THEN Token_new_before_start ELSE LastToken
      /\ \A i \in DOMAIN tokens : tokens[i] = NthOf(toks, i)
      /\ parser.peek_token = NthOf(toks, Len(tokens) + 1)
      /\ (Len(tokens) >= 2 /\ tokens[Len(tokens) - 1].kind = "EOF") =>
           /\ lexer = prev
           /\ LastToken.kind = "EOF"
           /\ parser.peek_token.kind = "EOF"

\* two tokens were returned, then EOF, and a further call returned EOF again
C31_Witness ==
  /\ ~panicked
  /\ Len(tokens) = 4
  /\ tokens[1].kind = "Identifier"
  /\ tokens[2].kind = "Semicolon"
  /\ tokens[3].kind = "EOF"
  /\ tokens[4].kind = "EOF"
  /\ lexer = prev

\* the text from offset c on
RestAt(c) == SubSeq(lexer.input, c + 1, Len(lexer.input))

\* some operator or punctuation string of the table is a prefix of s
HasFixedPrefix(s) ==
  \E n \in 1..3 : n <= Len(s) /\ SubSeq(s, 1, n) \in OperatorTexts

\* where the lexeme of the latest call starts: its token, or the error it
\* recorded when the token has no kind
LastStart ==
  IF LastToken.kind = "None" /\ NewErrors # <<>>
  THEN NewErrors[1].position.column_start
  ELSE LastToken.position.column_start

\* C32: where a run of operator or punctuation characters starts and some
\* token of the table is a prefix of the rest of the text, the tokenizer
\* emits a token, not an error, and it is the longest such prefix.
C32_LongestOperatorEmitted ==
  (Returned /\ LastToken.kind # "EOF"
     /\ is_symbol(CharsNth(lexer.input, LastStart))
     /\ HasFixedPrefix(RestAt(LastStart))) =>
    \A rest \in {RestAt(LastStart)} :
      /\ LastToken.kind = FixedKind(SubSeq(rest, 1, LongestFixed(rest)))
      /\ LastToken.value = SubSeq(rest, 1, LongestFixed(rest))
      /\ LastToken.position.column_start = LastStart
      /\ NewErrors = <<>>

\* s is digits+ '.' digits+
IsDigitsDotDigits(s) ==
  \E d \in 2..(Len(s) - 1) :
    /\ s[d] = "."
    /\ \A i \in DOMAIN s : i # d => s[i] \in AsciiDigits

\* C33: a text of digits, one '.', and digits is scanned by longest match:
\* the first call returns one FloatLiteral token holding the whole text, the
\* next call returns EOF, and no error is recorded.
C33_FloatIsOneToken ==
  (Returned /\ IsDigitsDotDigits(lexer.input)) =>
    /\ tokens[1].kind = "FloatLiteral"
    /\ tokens[1].value = lexer.input
    /\ Len(tokens) >= 2 => tokens[2].kind = "EOF"
    /\ lexer.errors = <<>>

Quotes == {"\"", "'"}

\* C34: whatever next_token and peek_tokens calls are made, no recorded
\* LexerError has kind IncompleteToken: a lexeme that could not be classified
\* is recorded as UnexpectedToken, and a literal that was not closed as
\* UnterminatedString or UnterminatedRune (in a text of one-byte characters
\* the lexeme of an UnexpectedToken error holds no quote).
C34_NoIncompleteToken ==
  \A e \in DOMAIN lexer.errors :
    \A err \in {lexer.errors[e]} :
      /\ err.kind # "IncompleteToken"
      /\ err.kind
           \in {"UnexpectedToken", "UnterminatedString", "UnterminatedRune"}
      /\ (IsAscii(lexer.input) /\ err.kind = "UnexpectedToken") =>
           /\ err.text # <<>>
           /\ \A i \in DOMAIN err.text : err.text[i] \notin Quotes

\* a call of peek_tokens recorded the error of a lexeme that could still grow
\* into a token when the text ended
C34_Witness ==
  /\ ~panicked
  /\ ret.op = "peek_tokens"
  /\ Len(lexer.errors) = 1
  /\ prev.errors = <<>>
  /\ lexer.errors[1].kind = "UnexpectedToken"
  /\ could_match(lexer.errors[1].text)

\* C35: trailers apply to every primary: an integer or string literal
\* followed by '.field' or '(arguments)' parses, without error, to the
\* FieldAccess or FunctionCall that wraps the literal.
C35_TrailersOnLiterals ==
  (parser.pc = "idle" /\ Len(parser.returns) = 1) =>
    \A toks \in {SourceTokens} :
      (/\ toks[1].kind \in {"IntegerLiteral", "StringLiteral"}
       /\ toks[2].kind \in {"Dot", "LeftParen"}
       /\ IsTrailers(Tail(toks))) =>
        /\ ParseCall(1).ok
        /\ parser.errors = <<>>
        /\ Len(ParseCall(1).val) = 1
        /\ ParseCall(1).val[1].kind.tag = "Expression"
        /\ ParseCall(1).val[1].kind.expression.kind.tag
             \in {"FieldAccess", "FunctionCall"}
        /\ Shape(ParseCall(1).val[1].kind.expression)
             = Chained(Leaf(toks[1]), Tail(toks))

\* the position covers the character at byte offset c
Covers(position, c) == position.column_start <= c /\ c < position.column_end

\* how many returned tokens and recorded errors cover the offset c
Accounts(c) ==
  Cardinality({i \in DOMAIN tokens : Covers(tokens[i].position, c)})
    + Cardinality({e \in DOMAIN lexer.errors :
                     Covers(lexer.errors[e].position, c)})

\* C36: once the scan has reached EOF every character of the text that is
\* not whitespace lies in the span of exactly one returned token or in the
\* lexeme of exactly one recorded error: no pending lexeme is discarded.
C36_EveryCharacterAccounted ==
  (Returned /\ LastToken.kind = "EOF" /\ IsAscii(lexer.input)) =>
    \A i \in DOMAIN lexer.input :
      ~is_whitespace(lexer.input[i]) => Accounts(i - 1) = 1

\* C37: the tokenizer is in at most one literal mode at a time:
\* is_parsing_string and is_parsing_rune are never both true, and both are
\* false when next_token has returned a StringLiteral, a RuneLiteral or EOF.
C37_OneLiteralMode ==
  /\ ~(lexer.is_parsing_string /\ lexer.is_parsing_rune)
  /\ (Returned /\ LastToken.kind \in {"StringLiteral", "RuneLiteral", "EOF"}) =>
       (~lexer.is_parsing_string /\ ~lexer.is_parsing_rune)

\* the body of a rune literal is one character or one escape pair
IsRuneBody(body) ==
  \/ Len(body) = 1 /\ body[1] # "\\"
  \/ Len(body) = 2 /\ body[1] = "\\"

\* C38: the tokenizer and the classifier agree: a returned token with a kind
\* other than EOF has the kind TokenKind::from_str gives its value; the value
\* of a RuneLiteral is a quoted body of exactly one character or one escape
\* pair, and the value of a StringLiteral starts and ends with a double quote.
C38_TokenizerAgreesWithClassifier ==
  \A i \in DOMAIN tokens :
    \A tok \in {tokens[i]} :
      tok.kind \notin {"None", "EOF"} =>
        /\ from_str(tok.value) = tok.kind
        /\ tok.kind = "RuneLiteral" =>
             /\ Len(tok.value) >= 2
             /\ tok.value[1] = "'" /\ tok.value[Len(tok.value)] = "'"
             /\ IsRuneBody(SubSeq(tok.value, 2, Len(tok.value) - 1))
        /\ tok.kind = "StringLiteral" =>
             /\ Len(tok.value) >= 2
             /\ tok.value[1] = "\"" /\ tok.value[Len(tok.value)] = "\""

\* the tokens of a function head stand at index i of toks
HeadAt(toks, i) ==
  /\ i + 4 <= Len(toks)
  /\ Kinds(SubSeq(toks, i, i + 4))
       = <<Func, "Identifier", "LeftParen", "RightParen", "LeftBrace">>

\* the token at index t of toks stands between the '{' of a function head
\* and the first '}' after it
InsideBody(toks, t) ==
  /\ \E k \in (t + 1)..Len(toks) : toks[k].kind = "RightBrace"
  /\ \E i \in 1..(t - 5) :
       /\ HeadAt(toks, i)
       /\ \A j \in (i + 5)..t : toks[j].kind # "RightBrace"

\* C39: a statement that stands inside the braces of a function body is never
\* a top-level entry of the statements parse() returns, also when an earlier
\* statement of the body failed and parse() recovered.
C39_BodyStatementsStayInside ==
  (parser.pc = "idle" /\ Len(parser.returns) = 1 /\ ~panicked) =>
    \A toks \in {SourceTokens} :
      \A j \in DOMAIN ParseCall(1).val :
        \A t \in DOMAIN toks :
          InsideBody(toks, t) =>
            ParseCall(1).val[j].position_start.column_start
              # toks[t].position.column_start
====
